---- MODULE Spec2Model ----
(***************************************************************************)
(* env-secrets: the `aws` injection command and the `aws secret ...`       *)
(* administrative commands, as one command-line invocation at a time       *)
(* running against an external vault (AWS STS + Secrets Manager) and a     *)
(* local file system.                                                      *)
(*                                                                         *)
(* Text is modelled as a sequence of one-character strings, an optional    *)
(* value (JavaScript `undefined`) as a sequence of length 0 or 1.          *)
(***************************************************************************)
EXTENDS Integers, Sequences, FiniteSets, TLC

\* ------------------------------------------------------------------ bounds
MaxNameLen == 1
MaxTagLen  == 3
MaxDaysLen == 2
MaxPages   == 2
MaxEvents  == 4
MaxLines   == 3
MaxSecrets == 2
MaxCols    == 2
MaxRows    == 2

\* ------------------------------------------------------- optional values
None      == <<>>
Some(v)   == <<v>>
IsSet(o)  == Len(o) = 1
Val(o)    == o[1]
Opt(S)    == {None} \cup {Some(v) : v \in S}

SeqsUpTo(S, n) == UNION {[1..k -> S] : k \in 0..n}

\* JavaScript truthiness of an optional text: undefined and "" are falsy.
Truthy(o) == IsSet(o) /\ Val(o) # <<>>

\* ------------------------------------------------------------ text helpers
WhiteSpace == {" ", "\t", "\n", "\r"}

RECURSIVE TrimStart(_)
TrimStart(s) ==
  IF s # <<>> /\ Head(s) \in WhiteSpace THEN TrimStart(Tail(s)) ELSE s

RECURSIVE TrimEnd(_)
TrimEnd(s) ==
  IF s # <<>> /\ s[Len(s)] \in WhiteSpace
  THEN TrimEnd(SubSeq(s, 1, Len(s) - 1))
  ELSE s

Trim(s) == TrimEnd(TrimStart(s))

\* String.prototype.indexOf for a single character, 1-based; 0 when absent.
IndexOf(s, c) ==
  IF \E i \in 1..Len(s) : s[i] = c
  THEN CHOOSE i \in 1..Len(s) : s[i] = c /\ \A j \in 1..(i - 1) : s[j] # c
  ELSE 0

\* --------------------------------------------------------------- messages
\* A line printed to a stream: a fixed text and, when the text quotes an
\* input (a secret name, a tag, a file), that input.
Msg(text)          == [text |-> text, subject |-> None]
MsgFor(text, subj) == [text |-> text, subject |-> Some(subj)]

\* The outcome of a call that may throw: `err` carries the thrown message.
Ok(v)    == [threw |-> FALSE, err |-> Msg(""), val |-> v]
Throw(m) == [threw |-> TRUE, err |-> m, val |-> None]

\* ------------------------------------------------- secretsmanager-admin.ts
\* SECRET_NAME_PATTERN = /^[A-Za-z0-9/_+=.@-]+$/
SecretNameChars ==
  { "A", "B", "C", "D", "E", "F", "G", "H", "I", "J", "K", "L", "M",
    "N", "O", "P", "Q", "R", "S", "T", "U", "V", "W", "X", "Y", "Z",
    "a", "b", "c", "d", "e", "f", "g", "h", "i", "j", "k", "l", "m",
    "n", "o", "p", "q", "r", "s", "t", "u", "v", "w", "x", "y", "z",
    "0", "1", "2", "3", "4", "5", "6", "7", "8", "9",
    "/", "_", "+", "=", ".", "@", "-" }

\* Faulty variant: `*` in place of `+`, which lets the empty name through.
SECRET_NAME_PATTERN_Star(name) ==
  \A i \in 1..Len(name) : name[i] \in SecretNameChars

SECRET_NAME_PATTERN(name) ==
  Len(name) >= 1 /\ \A i \in 1..Len(name) : name[i] \in SecretNameChars

validateSecretName(name) ==
  IF ~SECRET_NAME_PATTERN(name)
  THEN Throw(MsgFor("Invalid secret name. Use only letters, numbers, and /_+=.@- characters.", name))
  ELSE Ok(None)

\* One `key=value` tag: split at every "=", the first part is the key and the
\* other parts joined by "=" again are the value.
parseTag(tag) ==
  LET eq    == IndexOf(tag, "=")
      key   == Trim(SubSeq(tag, 1, eq - 1))
      value == Trim(SubSeq(tag, eq + 1, Len(tag)))
  IN  IF eq = 0
      THEN Throw(MsgFor("Invalid tag format. Use key=value.", tag))
      ELSE IF key = <<>> \/ value = <<>>
      THEN Throw(MsgFor("Invalid tag format. Use key=value.", tag))
      ELSE Ok(Some([Key |-> key, Value |-> value]))

\* parseTags(tags): undefined for no tags, else the parsed tags in order; the
\* first malformed tag throws.
parseTags(tags) ==
  IF ~IsSet(tags) \/ Len(Val(tags)) = 0
  THEN Ok(None)
  ELSE LET ts  == Val(tags)
           bad == {i \in 1..Len(ts) : parseTag(ts[i]).threw}
       IN  IF bad # {}
           THEN parseTag(ts[CHOOSE i \in bad : \A j \in bad : i <= j])
           ELSE Ok(Some([i \in 1..Len(ts) |-> Val(parseTag(ts[i]).val)]))

\* An error rejected by the AWS SDK: `name` is "" when the rejection carries
\* no name, `message` is unset when it carries no (or an empty) message.
AwsError(name, message) == [name |-> name, message |-> message]

\* Faulty variant: an access-denied error always gets the stock message.
mapAwsError_StockDenied(error, secretName) ==
  IF error.name = "AlreadyExistsException"
  THEN [text |-> "Secret already exists.", subject |-> secretName]
  ELSE IF error.name = "ResourceNotFoundException"
  THEN [text |-> "Secret was not found.", subject |-> secretName]
  ELSE IF error.name = "InvalidRequestException"
  THEN IF IsSet(error.message) THEN Msg(Val(error.message))
       ELSE Msg("Invalid request to AWS Secrets Manager.")
  ELSE IF error.name = "AccessDeniedException"
  THEN Msg("Access denied while calling AWS Secrets Manager. Verify IAM permissions.")
  ELSE IF IsSet(error.message) THEN Msg(Val(error.message))
  ELSE Msg("String(error)")

mapAwsError(error, secretName) ==
  IF error.name = "AlreadyExistsException"
  THEN [text |-> "Secret already exists.", subject |-> secretName]
  ELSE IF error.name = "ResourceNotFoundException"
  THEN [text |-> "Secret was not found.", subject |-> secretName]
  ELSE IF error.name = "InvalidRequestException"
  THEN IF IsSet(error.message) THEN Msg(Val(error.message))
       ELSE Msg("Invalid request to AWS Secrets Manager.")
  ELSE IF error.name = "AccessDeniedException"
  THEN IF IsSet(error.message) THEN Msg(Val(error.message))
       ELSE Msg("Access denied while calling AWS Secrets Manager. Verify IAM permissions.")
  ELSE IF IsSet(error.message) THEN Msg(Val(error.message))
  ELSE Msg("String(error)")

\* ------------------------------------------------------------ src/index.ts
asOutputFormat(value) ==
  IF value # "json" /\ value # "table"
  THEN Throw(MsgFor("Invalid output format. Use json or table.", <<value>>))
  ELSE Ok(Some(value))

\* Number(text) for texts of digits, sign, "." and white space: NaN, or a sign,
\* the integer digits and the fraction digits.
DigitChars == <<"0", "1", "2", "3", "4", "5", "6", "7", "8", "9">>
IsDigits(s) == \A i \in 1..Len(s) : \E d \in 1..10 : DigitChars[d] = s[i]
DigitVal(c) == (CHOOSE d \in 1..10 : DigitChars[d] = c) - 1

RECURSIVE DigitsValue(_)
DigitsValue(s) ==
  IF s = <<>> THEN 0
  ELSE 10 * DigitsValue(SubSeq(s, 1, Len(s) - 1)) + DigitVal(s[Len(s)])

Number(text) ==
  LET t      == Trim(text)
      signed == t # <<>> /\ Head(t) \in {"+", "-"}
      body   == IF signed THEN Tail(t) ELSE t
      dot    == IndexOf(body, ".")
      ip     == IF dot = 0 THEN body ELSE SubSeq(body, 1, dot - 1)
      fp     == IF dot = 0 THEN <<>> ELSE SubSeq(body, dot + 1, Len(body))
  IN  IF t = <<>>
      THEN [nan |-> FALSE, int |-> 0, frac |-> <<>>]
      ELSE IF IsDigits(ip) /\ IsDigits(fp) /\ Len(ip) + Len(fp) >= 1
      THEN [nan  |-> FALSE,
            int  |-> IF signed /\ Head(t) = "-" THEN 0 - DigitsValue(ip)
                     ELSE DigitsValue(ip),
            frac |-> fp]
      ELSE [nan |-> TRUE, int |-> 0, frac |-> <<>>]

NumberIsInteger(n) ==
  ~n.nan /\ \A i \in 1..Len(n.frac) : n.frac[i] = "0"

MinRecoveryDays == 7
MaxRecoveryDays == 30

\* Faulty variant: the upper limit is not checked.
parseRecoveryDays_NoUpper(value) ==
  LET parsed == Number(value)
  IN  IF ~NumberIsInteger(parsed) \/ parsed.int < MinRecoveryDays
      THEN Throw(Msg("Recovery days must be an integer between 7 and 30."))
      ELSE Ok(Some(parsed.int))

parseRecoveryDays(value) ==
  LET parsed == Number(value)
  IN  IF ~NumberIsInteger(parsed) \/ parsed.int < MinRecoveryDays
         \/ parsed.int > MaxRecoveryDays
      THEN Throw(Msg("Recovery days must be an integer between 7 and 30."))
      ELSE Ok(Some(parsed.int))

\* readStdin's result: the piped text without one trailing line terminator.
StripNewline(s) ==
  IF Len(s) >= 2 /\ s[Len(s) - 1] = "\r" /\ s[Len(s)] = "\n"
  THEN SubSeq(s, 1, Len(s) - 2)
  ELSE IF Len(s) >= 1 /\ s[Len(s)] = "\n"
  THEN SubSeq(s, 1, Len(s) - 1)
  ELSE s

\* resolveSecretValue(value, valueStdin) with the state of standard input.
resolveSecretValue(value, valueStdin, stdin) ==
  IF Truthy(value) /\ valueStdin
  THEN Throw(Msg("Use either --value or --value-stdin, not both."))
  ELSE IF valueStdin
  THEN IF stdin.isTTY
       THEN Throw(Msg("No stdin detected. Pipe a value when using --value-stdin."))
       ELSE Ok(Some(StripNewline(stdin.data)))
  ELSE Ok(value)

\* ------------------------------------------------------- vaults/utils.ts
EOL == <<"\n">>

\* JSON.parse on the SecretString texts the vault is taken to hold: the kind
\* of the parsed value and its own enumerable entries (what Object.entries and
\* Object.assign see), in insertion order.
Entry(k, v) == [key |-> k, value |-> v]
Parsed(kind, entries) == [kind |-> kind, entries |-> entries]
EmptyObject == Parsed("object", <<>>)

JSONparse(text) ==
  CASE text = "{\"K\":\"v\"}"          -> Ok(Some(Parsed("object", <<Entry(<<"K">>, <<"v">>)>>)))
    [] text = "{}"                      -> Ok(Some(EmptyObject))
    [] text = "null"                    -> Ok(Some(Parsed("null", <<>>)))
    [] text = "42"                      -> Ok(Some(Parsed("number", <<>>)))
    [] text = "true"                    -> Ok(Some(Parsed("boolean", <<>>)))
    [] text = "\"x\""                   -> Ok(Some(Parsed("string", <<Entry(<<"0">>, <<"x">>)>>)))
    [] text = "[\"x\"]"                 -> Ok(Some(Parsed("array", <<Entry(<<"0">>, <<"x">>)>>)))
    [] OTHER                            -> Throw(Msg("SyntaxError"))

RECURSIVE ExportLines(_)
ExportLines(entries) ==
  IF entries = <<>> THEN <<>>
  ELSE Head(entries).key \o <<"=">> \o Head(entries).value \o EOL
       \o ExportLines(Tail(entries))

\* objectToExport(obj): Object.entries throws a TypeError on null.
objectToExport(obj) ==
  IF obj.kind = "null"
  THEN Throw(Msg("TypeError: Cannot convert undefined or null to object"))
  ELSE Ok(Some(ExportLines(obj.entries)))

\* Object.assign({}, process.env, secrets): a new map, later sources win;
\* the sources themselves are not assigned to.
RECURSIVE AssignEntries(_, _)
AssignEntries(env, entries) ==
  IF entries = <<>> THEN env
  ELSE LET e == Head(entries)
           k == DOMAIN env \cup {e.key}
       IN  AssignEntries([x \in k |-> IF x = e.key THEN e.value ELSE env[x]],
                         Tail(entries))

\* Faulty variant: a key of the environment keeps the environment's value.
ObjectAssign_EnvWins(env, obj) ==
  LET merged == AssignEntries(env, obj.entries)
  IN  [k \in DOMAIN merged |-> IF k \in DOMAIN env THEN env[k] ELSE merged[k]]

ObjectAssign(env, obj) == AssignEntries(env, obj.entries)

\* =================================================================== state
VARIABLES
  pc,        \* "idle", "sts" (identity check in flight), "sm" (vault request
             \* in flight) or "exited"
  cmd,       \* the command of the current invocation
  opts,      \* its parsed options and the state of its standard input
  requests,  \* the network requests it has sent, in order
  called,    \* the adapter function it has called ("none" before the call)
  identity,  \* its identity check: "none", "pending", "ok" or "failed", and
             \* the error of a failed one
  failure,   \* the error its vault request was rejected with
  out,       \* what it has printed to standard output
  err,       \* what it has printed to standard error
  exitCode,  \* its exit code, once exited
  secrets,   \* injection command: what secretsmanager() resolved to
  result,    \* administrative command: what the adapter function returned
  response,  \* the last answer of the vault to a request of its
  listed,    \* listSecrets: the summaries collected so far
  pages,     \* listSecrets: the answers of the vault so far, in order
  fs,        \* the output file: whether it exists, its content and mode
  spawned,   \* the child processes launched by the current invocation
  processEnv,\* process.env of the parent process
  \* cli/helpers.ts, resolveSecretValue and readStdin
  call,      \* the arguments resolveSecretValue was called with
  rpc,       \* where the call is: "start", "reading", "readFile" or "settled"
  stream,    \* standard input: isTTY, the events that have a listener of
             \* readStdin, the listeners ever attached, the events emitted
  chunks,    \* readStdin: the chunks received
  promise,   \* the promise of the call: its state, its value or error, and
             \* how often resolve or reject has been called
  disk,      \* the file of --file: whether it exists, its content, the reads
  \* cli/helpers.ts, parseEnvSecrets
  content,   \* the text to parse
  index,     \* the loop index (0-based, as in the code)
  seenKeys,  \* the keys seen so far
  entries,   \* the entries collected so far
  skipped,   \* the duplicates recorded so far
  envResult, \* what parseEnvSecrets returned or threw, once it has
  \* cli/helpers.ts and aws-config.ts, the functions without state
  fn,        \* the function called ("none" when none is)
  args,      \* its arguments, with the environment variables it reads
  ret        \* what it returned, once it has

vars == <<pc, cmd, opts, requests, called, identity, failure, out, err, exitCode, secrets, result,
          response, listed, pages, fs, spawned, processEnv,
          call, rpc, stream, chunks, promise, disk,
          content, index, seenKeys, entries, skipped, envResult,
          fn, args, ret>>

\* the state of the command-line program
cliVars == <<pc, cmd, opts, requests, called, identity, failure, out, err, exitCode, secrets,
             result, response, listed, pages, fs, spawned, processEnv>>
\* the state of a call of resolveSecretValue
valueVars == <<call, rpc, stream, chunks, promise, disk>>
\* the state of a call of parseEnvSecrets
envVars == <<content, index, seenKeys, entries, skipped, envResult>>
\* the state of a call of a function without state
pureVars == <<fn, args, ret>>

\* process.env of the parent
ProcessEnv == [k \in {<<"K">>, <<"HOME">>} |->
                 IF k = <<"K">> THEN <<"o">> ELSE <<"h">>]

NoOpts ==
  [ secret |-> None, outFile |-> None, program |-> <<>>, testMode |-> FALSE,
    name |-> <<>>, value |-> None, valueStdin |-> FALSE,
    stdin |-> [isTTY |-> TRUE, data |-> <<>>],
    description |-> None, kmsKeyId |-> None, tag |-> None, prefix |-> None,
    recoveryDaysArg |-> None, recoveryDays |-> None,
    forceDeleteWithoutRecovery |-> FALSE, yes |-> FALSE, output |-> "table" ]

Request(api, arg) == [api |-> api, arg |-> arg]
Identity(state, error) == [state |-> state, error |-> error]
NoIdentity == Identity("none", None)
StsRequest == Request("GetCallerIdentity", None)

AbsentFile == [exists |-> FALSE, content |-> <<>>, mode |-> "none"]
ExistingFile == [exists |-> TRUE, content |-> <<"e">>, mode |-> "0644"]

NoCall == [value |-> None, valueStdin |-> FALSE, valueFile |-> None]
Stdin(isTTY) == [isTTY |-> isTTY, listeners |-> {}, attached |-> 0, emitted |-> <<>>]
Pending == [state |-> "pending", value |-> None, error |-> None, calls |-> 0]
File(exists, text) == [exists |-> exists, content |-> text, reads |-> 0]

\* no call of resolveSecretValue is under way
ValueIdle ==
  /\ call = NoCall
  /\ rpc = "start"
  /\ stream = Stdin(TRUE)
  /\ chunks = <<>>
  /\ promise = Pending
  /\ disk = File(FALSE, <<>>)

\* no call of parseEnvSecrets is under way
EnvIdle ==
  /\ content = <<>>
  /\ index = 0
  /\ seenKeys = {}
  /\ entries = <<>>
  /\ skipped = <<>>
  /\ envResult = None

\* no function without state is called
PureIdle ==
  /\ fn = "none"
  /\ args = None
  /\ ret = None

CliInit ==
  /\ pc = "idle"
  /\ cmd = "none"
  /\ opts = NoOpts
  /\ requests = <<>>
  /\ called = "none"
  /\ identity = NoIdentity
  /\ failure = None
  /\ out = <<>>
  /\ err = <<>>
  /\ exitCode = None
  /\ secrets = None
  /\ result = None
  /\ response = None
  /\ listed = <<>>
  /\ pages = <<>>
  /\ fs \in {AbsentFile, ExistingFile}
  /\ spawned = <<>>
  /\ processEnv = ProcessEnv

\* no command is running
CliIdle == CliInit /\ fs = AbsentFile

Init == CliInit /\ ValueIdle /\ EnvIdle /\ PureIdle

\* The process of an invocation is gone once it has exited; the next
\* invocation is a new process that finds only the file system as the earlier
\* ones left it.
NewProcess ==
  /\ pc = "exited"
  /\ pc' = "idle"
  /\ cmd' = "none"
  /\ opts' = NoOpts
  /\ requests' = <<>>
  /\ called' = "none"
  /\ identity' = NoIdentity
  /\ failure' = None
  /\ out' = <<>>
  /\ err' = <<>>
  /\ exitCode' = None
  /\ secrets' = None
  /\ result' = None
  /\ response' = None
  /\ listed' = <<>>
  /\ pages' = <<>>
  /\ spawned' = <<>>
  /\ UNCHANGED fs
  /\ UNCHANGED <<processEnv, valueVars, envVars, pureVars>>

\* An invocation starts with nothing sent and nothing printed.
Begin(c, o) ==
  /\ cmd' = c
  /\ opts' = o
  /\ failure' = None
  /\ secrets' = None
  /\ result' = None
  /\ response' = None
  /\ listed' = <<>>
  /\ pages' = <<>>
  /\ UNCHANGED fs

\* exitWithError(error) as the first thing the invocation prints
FailAtStart(m) ==
  /\ pc' = "exited"
  /\ called' = "none"
  /\ identity' = NoIdentity
  /\ requests' = <<>>
  /\ out' = <<>>
  /\ err' = <<m>>
  /\ exitCode' = Some(1)
  /\ spawned' = <<>>

\* The adapter function `f` is called and throws `m` before it sends anything.
FailInCall(f, m) ==
  /\ pc' = "exited"
  /\ called' = f
  /\ identity' = NoIdentity
  /\ requests' = <<>>
  /\ out' = <<>>
  /\ err' = <<m>>
  /\ exitCode' = Some(1)
  /\ spawned' = <<>>

\* The adapter function `f` is called and sends the identity check
\* (ensureConnected / checkConnection).
SendSts(f) ==
  /\ pc' = "sts"
  /\ called' = f
  /\ identity' = Identity("pending", None)
  /\ requests' = <<StsRequest>>
  /\ out' = <<>>
  /\ err' = <<>>
  /\ exitCode' = None
  /\ spawned' = <<>>

\* --------------------------------------------------------- `aws -s <secret>`
SecretArgs == {None, Some(<<>>), Some(<<"s">>)}
OutFiles   == Opt({<<"f">>})
Programs   == {<<>>, <<"p">>}

SecretStrings ==
  { "{\"K\":\"v\"}", "{}", "null", "42", "true", "\"x\"", "[\"x\"]",
    "not json", "" }

GetSecretErrors ==
  { AwsError("ResourceNotFoundException", Some("no such secret")),
    AwsError("ConfigError", Some("missing region")),
    AwsError("ConfigError", None),
    AwsError("ServiceError", Some("boom")),
    AwsError("", None) }

StsErrors ==
  { AwsError("CredentialsProviderError", Some("no credentials")),
    AwsError("CredentialsProviderError", None),
    AwsError("Error", Some("network")),
    AwsError("", None) }

\* How a request ends: resolved with `data` or rejected with `error`.
Resolved(data)  == [ok |-> TRUE, data |-> Some(data), error |-> None]
RejectedWith(e) == [ok |-> FALSE, data |-> None, error |-> Some(e)]

StsOutcomes == {Resolved("identity")} \cup {RejectedWith(e) : e \in StsErrors}

GetSecretOutcomes ==
  {Resolved([SecretString |-> t]) : t \in Opt(SecretStrings)}
  \cup {RejectedWith(e) : e \in GetSecretErrors}

\* console.error(err): the printed form of a rejection
Inspect(error) == [text |-> "inspect", subject |-> None, error |-> error]

isCredentialsError(error) ==
  error.name = "CredentialsError" \/ error.name = "CredentialsProviderError"

\* checkConnection(config): whether the identity check succeeded, and what it
\* printed to standard error.
checkConnection(outcome) ==
  IF outcome.ok
  THEN [connected |-> TRUE, errs |-> <<>>]
  ELSE [connected |-> FALSE,
        errs |-> << IF isCredentialsError(Val(outcome.error))
                       /\ IsSet(Val(outcome.error).message)
                    THEN Msg(Val(Val(outcome.error).message))
                    ELSE Inspect(Val(outcome.error)) >>]

\* How secretsmanager(options) settles: resolved to `value` or rejected,
\* having printed `errs` to standard error.
Settled(value, errs) == [rejected |-> FALSE, value |-> value, errs |-> errs]
Rejects(errs)        == [rejected |-> TRUE, value |-> EmptyObject, errs |-> errs]

\* secretsmanager(options) when checkConnection resolved false
secretsmanagerNotConnected == Settled(EmptyObject, <<Msg("Unable to connect to AWS")>>)

\* Faulty variant: the catch reports the error and throws it again.
secretsmanagerCatch_Rethrow(secret, e) == Rejects(<<Inspect(e)>>)

\* secretsmanager(options), the catch of a rejected GetSecretValue: every
\* error is reported and swallowed.
secretsmanagerCatch(secret, e) ==
  IF e.name = "ResourceNotFoundException"
  THEN Settled(EmptyObject, <<MsgFor("not found", secret)>>)
  ELSE IF e.name = "ConfigError" /\ IsSet(e.message)
  THEN Settled(EmptyObject, <<Msg(Val(e.message))>>)
  ELSE Settled(EmptyObject, <<Inspect(e)>>)

\* secretsmanager(options) from the outcome of its GetSecretValue request
secretsmanagerConnected(secret, outcome) ==
  IF outcome.ok
  THEN LET secretvalue == Val(outcome.data).SecretString
       IN  IF IsSet(secretvalue) /\ Val(secretvalue) # ""
           THEN IF JSONparse(Val(secretvalue)).threw
                THEN Settled(EmptyObject, <<Inspect(JSONparse(Val(secretvalue)).err)>>)
                ELSE Settled(Val(JSONparse(Val(secretvalue)).val), <<>>)
           ELSE Settled(EmptyObject, <<>>)
  ELSE secretsmanagerCatch(secret, Val(outcome.error))

\* Faulty variant: the existence check is missing.
existsSync_Never(file) == FALSE

\* fs.existsSync(path)
existsSync(file) == file.exists

\* Faulty variant: the program is launched in file mode too.
InjectFinish_SpawnWithFile(s) ==
  /\ pc' = "exited"
  /\ secrets' = IF s.rejected THEN None ELSE Some(s.value)
  /\ err' = err \o s.errs
  /\ exitCode' = Some(IF s.rejected THEN 1 ELSE 0)
  /\ UNCHANGED out
  /\ IF ~s.rejected /\ Truthy(opts.outFile) /\ ~existsSync(fs)
        /\ ~objectToExport(s.value).threw
     THEN fs' = [exists |-> TRUE, content |-> Val(objectToExport(s.value).val),
                 mode |-> "0400"]
     ELSE UNCHANGED fs
  /\ IF ~s.rejected /\ Len(opts.program) > 0
     THEN spawned' = Append(spawned, [program |-> opts.program,
                                      env |-> ObjectAssign(processEnv, s.value)])
     ELSE UNCHANGED spawned

\* The rest of the awsCommand action once secretsmanager() has settled as `s`.
\* A rejection, like a throw of objectToExport, rejects the action's promise,
\* which nothing handles: the process dies with exit code 1.
InjectFinish(s) ==
  /\ pc' = "exited"
  /\ secrets' = IF s.rejected THEN None ELSE Some(s.value)
  /\ IF s.rejected
     THEN /\ err' = err \o s.errs \o <<Msg("unhandled rejection")>>
          /\ exitCode' = Some(1)
          /\ UNCHANGED <<fs, out, spawned>>
     ELSE IF Truthy(opts.outFile)
     THEN IF existsSync(fs)
          THEN /\ err' = err \o s.errs \o
                   <<MsgFor("Error: File already exists and will not be overwritten",
                            Val(opts.outFile))>>
               /\ exitCode' = Some(1)
               /\ UNCHANGED <<fs, out, spawned>>
          ELSE IF objectToExport(s.value).threw
          THEN /\ err' = err \o s.errs \o <<objectToExport(s.value).err>>
               /\ exitCode' = Some(1)
               /\ UNCHANGED <<fs, out, spawned>>
          ELSE /\ fs' = [exists |-> TRUE,
                         content |-> Val(objectToExport(s.value).val),
                         mode |-> "0400"]
               /\ out' = Append(out, MsgFor("Secrets written to", Val(opts.outFile)))
               /\ err' = err \o s.errs
               /\ exitCode' = Some(0)
               /\ UNCHANGED spawned
     ELSE /\ err' = err \o s.errs
          /\ exitCode' = Some(0)
          /\ UNCHANGED fs
          /\ IF Len(opts.program) > 0
             THEN IF opts.testMode
                  THEN /\ out' = Append(out, [text |-> "JSON.stringify(env)",
                                              env |-> ObjectAssign(processEnv, s.value)])
                       /\ UNCHANGED spawned
                  ELSE /\ spawned' = Append(spawned,
                                            [program |-> opts.program,
                                             env |-> ObjectAssign(processEnv, s.value)])
                       /\ UNCHANGED out
             ELSE UNCHANGED <<out, spawned>>

InjectStart ==
  /\ pc = "idle"
  /\ \E secret \in SecretArgs, outFile \in OutFiles, program \in Programs,
        testMode \in BOOLEAN :
       /\ Begin("inject", [NoOpts EXCEPT !.secret = secret, !.outFile = outFile,
                                         !.program = program, !.testMode = testMode])
       /\ IF ~Truthy(secret)
          THEN FailAtStart(Msg("Missing required option --secret for this command."))
          ELSE SendSts("secretsmanager")
  /\ UNCHANGED <<processEnv, valueVars, envVars, pureVars>>

\* The identity check of secretsmanager() is answered: when connected,
\* GetSecretValue is sent, otherwise secretsmanager() settles at once.
InjectSts ==
  \E outcome \in StsOutcomes :
    LET cc == checkConnection(outcome) IN
    /\ pc = "sts" /\ cmd = "inject"
    /\ identity' = Identity(IF outcome.ok THEN "ok" ELSE "failed", outcome.error)
    /\ IF cc.connected
       THEN /\ requests' = Append(requests, Request("GetSecretValue", opts.secret))
            /\ pc' = "sm"
            /\ err' = err \o cc.errs
            /\ UNCHANGED <<out, exitCode, secrets, fs, spawned>>
       ELSE /\ InjectFinish([secretsmanagerNotConnected EXCEPT
                               !.errs = cc.errs \o secretsmanagerNotConnected.errs])
            /\ UNCHANGED requests
    /\ UNCHANGED <<cmd, opts, called, failure, result, response, listed, pages>>
    /\ UNCHANGED <<processEnv, valueVars, envVars, pureVars>>

\* GetSecretValue is answered
InjectGet ==
  \E outcome \in GetSecretOutcomes :
    /\ pc = "sm" /\ cmd = "inject"
    /\ response' = outcome.data
    /\ failure' = outcome.error
    /\ InjectFinish(secretsmanagerConnected(Val(opts.secret), outcome))
    /\ UNCHANGED <<cmd, opts, requests, called, identity, result, listed, pages>>
    /\ UNCHANGED <<processEnv, valueVars, envVars, pureVars>>

\* ------------------------------------------------------ `aws secret ...`
NameChars  == {"a", "@", " "}
Names      == SeqsUpTo(NameChars, MaxNameLen)
TagChars   == {"k", "="}
TagTexts   == SeqsUpTo(TagChars, MaxTagLen)
\* `-t <tag...>`: no tag, any one tag, or a well-formed tag with a second one
TagArgs    ==
  {None} \cup {Some(<<t>>) : t \in TagTexts}
         \cup {Some(<<<<"k", "=", "k">>, t>>) : t \in {<<"k">>, <<"k", "=", "=">>}}
\* `aws secret list -t <tag...>`: no filter, one pair, a pair whose value is
\* "=", a malformed tag, two pairs
FilterArgs ==
  { None, Some(<< <<"k", "=", "k">> >>), Some(<< <<"k", "=", "=">> >>),
    Some(<< <<"k">> >>), Some(<< <<"k", "=", "k">>, <<"j", "=", "j">> >>) }
ValueArgs  == {None, Some(<<"v">>)}
StdinStates ==
  { [isTTY |-> TRUE, data |-> <<>>],
    [isTTY |-> FALSE, data |-> <<>>],
    [isTTY |-> FALSE, data |-> <<"w", "\n">>] }
TextArgs   == Opt({<<"d">>})
Outputs    == {"json", "table", "xml"}
DayChars   == {"0", "3", "7", ".", "-"}
DaysArgs   == Opt(SeqsUpTo(DayChars, MaxDaysLen))
PrefixArgs == Opt({<<"a">>})

AdminCmds == {"create", "update", "list", "get", "delete"}

AdminErrors ==
  { AwsError("AlreadyExistsException", Some("exists")),
    AwsError("ResourceNotFoundException", Some("missing")),
    AwsError("InvalidRequestException", None),
    AwsError("InvalidRequestException", Some("bad request")),
    AwsError("AccessDeniedException", Some("denied")),
    AwsError("ThrottlingException", Some("slow down")),
    AwsError("", None) }

\* exitWithError(error) after the invocation has started
ExitWithError(m) ==
  /\ pc' = "exited"
  /\ err' = Append(err, m)
  /\ exitCode' = Some(1)
  /\ UNCHANGED out

\* error instanceof Error ? error.message : String(error)
ErrorText(e) == IF IsSet(e.message) THEN Msg(Val(e.message)) ELSE Msg("String(error)")

\* Date.prototype.toISOString
toISOString(d) == <<"iso", d>>
formatDate(value) == IF ~IsSet(value) THEN None ELSE Some(toISOString(Val(value)))

\* tagsToRecord(tags): the tags that carry both a key and a value, as a map;
\* undefined when there is none.
RECURSIVE TagRecord(_, _)
TagRecord(rec, tags) ==
  IF tags = <<>> THEN rec
  ELSE LET t == Head(tags)
       IN  IF Truthy(t.Key) /\ Truthy(t.Value)
           THEN TagRecord([k \in DOMAIN rec \cup {Val(t.Key)} |->
                             IF k = Val(t.Key) THEN Val(t.Value) ELSE rec[k]],
                          Tail(tags))
           ELSE TagRecord(rec, Tail(tags))

EmptyRecord == [k \in {} |-> <<>>]

tagsToRecord(tags) ==
  IF ~IsSet(tags) \/ Len(Val(tags)) = 0
  THEN None
  ELSE IF DOMAIN TagRecord(EmptyRecord, Val(tags)) # {}
  THEN Some(TagRecord(EmptyRecord, Val(tags)))
  ELSE None

\* printData(format, headers, rows): one console.log of the rendered rows
PrintData(format, headers, rows) ==
  [text |-> "printData", format |-> format, headers |-> headers, rows |-> rows]

\* Faulty variant: the rows are printed before --output is validated.
PrintResult_PrintFirst(headers, rows) ==
  /\ pc' = "exited"
  /\ out' = Append(out, PrintData(opts.output, headers, rows))
  /\ IF asOutputFormat(opts.output).threw
     THEN /\ err' = Append(err, asOutputFormat(opts.output).err)
          /\ exitCode' = Some(1)
     ELSE /\ exitCode' = Some(0)
          /\ UNCHANGED err

\* The tail of every administrative action: validate --output, print, return.
PrintResult(headers, rows) ==
  IF asOutputFormat(opts.output).threw
  THEN ExitWithError(asOutputFormat(opts.output).err)
  ELSE /\ pc' = "exited"
       /\ out' = Append(out, PrintData(opts.output, headers, rows))
       /\ exitCode' = Some(0)
       /\ UNCHANGED err

ResolvedValue == resolveSecretValue(opts.value, opts.valueStdin, opts.stdin).val

CreateStart ==
  /\ pc = "idle"
  /\ \E name \in Names, value \in ValueArgs, valueStdin \in BOOLEAN,
        stdin \in StdinStates, tag \in TagArgs, output \in Outputs :
       LET rv == resolveSecretValue(value, valueStdin, stdin) IN
       /\ Begin("create", [NoOpts EXCEPT !.name = name, !.value = value,
                             !.valueStdin = valueStdin, !.stdin = stdin,
                             !.tag = tag, !.output = output])
       /\ IF rv.threw THEN FailAtStart(rv.err)
          ELSE IF ~Truthy(rv.val)
          THEN FailAtStart(Msg("Secret value is required. Provide --value or --value-stdin."))
          ELSE IF validateSecretName(name).threw
          THEN FailInCall("createSecret", validateSecretName(name).err)
          ELSE SendSts("createSecret")
  /\ UNCHANGED <<processEnv, valueVars, envVars, pureVars>>

UpdateStart ==
  /\ pc = "idle"
  /\ \E name \in Names, value \in ValueArgs, valueStdin \in BOOLEAN,
        stdin \in StdinStates, description \in TextArgs, kmsKeyId \in TextArgs,
        output \in Outputs :
       LET rv == resolveSecretValue(value, valueStdin, stdin) IN
       /\ Begin("update", [NoOpts EXCEPT !.name = name, !.value = value,
                             !.valueStdin = valueStdin, !.stdin = stdin,
                             !.description = description, !.kmsKeyId = kmsKeyId,
                             !.output = output])
       /\ IF rv.threw THEN FailAtStart(rv.err)
          ELSE IF ~Truthy(rv.val) /\ ~Truthy(description) /\ ~Truthy(kmsKeyId)
          THEN FailAtStart(Msg("Nothing to update. Provide --value/--value-stdin, --description, or --kms-key-id."))
          ELSE IF validateSecretName(name).threw
          THEN FailInCall("updateSecret", validateSecretName(name).err)
          ELSE SendSts("updateSecret")
  /\ UNCHANGED <<processEnv, valueVars, envVars, pureVars>>

ListStart ==
  /\ pc = "idle"
  /\ \E prefix \in PrefixArgs, tag \in FilterArgs, output \in Outputs :
       /\ Begin("list", [NoOpts EXCEPT !.prefix = prefix, !.tag = tag,
                                       !.output = output])
       /\ SendSts("listSecrets")
  /\ UNCHANGED <<processEnv, valueVars, envVars, pureVars>>

GetStart ==
  /\ pc = "idle"
  /\ \E name \in Names, output \in Outputs :
       /\ Begin("get", [NoOpts EXCEPT !.name = name, !.output = output])
       /\ IF validateSecretName(name).threw
          THEN FailInCall("getSecretMetadata", validateSecretName(name).err)
          ELSE SendSts("getSecretMetadata")
  /\ UNCHANGED <<processEnv, valueVars, envVars, pureVars>>

\* Faulty variant: the confirmation check is missing.
deleteChecks_NoConfirm(yes, recoveryDays, force) ==
  IF IsSet(recoveryDays) /\ Val(recoveryDays) # 0 /\ force
  THEN Throw(Msg("Use either --recovery-days or --force-delete-without-recovery, not both."))
  ELSE Ok(None)

\* The checks of the delete action before it calls deleteSecret.
deleteChecks(yes, recoveryDays, force) ==
  IF ~yes
  THEN Throw(Msg("Delete requires --yes confirmation."))
  ELSE IF IsSet(recoveryDays) /\ Val(recoveryDays) # 0 /\ force
  THEN Throw(Msg("Use either --recovery-days or --force-delete-without-recovery, not both."))
  ELSE Ok(None)

\* commander applies parseRecoveryDays to the --recovery-days argument while
\* it parses the command line, before the action runs; what it throws leaves
\* program.parse() as an uncaught exception.
DeleteStart ==
  /\ pc = "idle"
  /\ \E name \in Names, days \in DaysArgs, force \in BOOLEAN, yes \in BOOLEAN,
        output \in Outputs :
       LET parsed == IF IsSet(days) THEN parseRecoveryDays(Val(days)) ELSE Ok(None) IN
       /\ Begin("delete", [NoOpts EXCEPT !.name = name, !.recoveryDaysArg = days,
                             !.recoveryDays = parsed.val,
                             !.forceDeleteWithoutRecovery = force, !.yes = yes,
                             !.output = output])
       /\ IF parsed.threw THEN FailAtStart(parsed.err)
          ELSE IF deleteChecks(yes, parsed.val, force).threw
          THEN FailAtStart(deleteChecks(yes, parsed.val, force).err)
          ELSE IF validateSecretName(name).threw
          THEN FailInCall("deleteSecret", validateSecretName(name).err)
          ELSE SendSts("deleteSecret")
  /\ UNCHANGED <<processEnv, valueVars, envVars, pureVars>>

\* Faulty variant: the rejection of the identity check is swallowed.
ensureConnected_Swallow(outcome) == Ok(None)

\* ensureConnected(config): throws what the identity check rejected with
ensureConnected(outcome) ==
  IF outcome.ok THEN Ok(None) ELSE Throw(ErrorText(Val(outcome.error)))

\* Faulty variant: the continuation token is not handed on.
ListSecretsCommand_NoToken(nextToken) == Request("ListSecrets", None)

\* new ListSecretsCommand({ NextToken: nextToken })
ListSecretsCommand(nextToken) == Request("ListSecrets", nextToken)

\* The vault request of each adapter function
AdminRequest ==
  CASE cmd = "create" ->
         Request("CreateSecret",
                 Some([Name |-> opts.name, SecretString |-> ResolvedValue,
                       Tags |-> parseTags(opts.tag).val]))
    [] cmd = "update" ->
         Request("UpdateSecret",
                 Some([SecretId |-> opts.name, SecretString |-> ResolvedValue,
                       Description |-> opts.description,
                       KmsKeyId |-> opts.kmsKeyId]))
    [] cmd = "list" -> ListSecretsCommand(None)
    [] cmd = "get" -> Request("DescribeSecret", Some([SecretId |-> opts.name]))
    [] cmd = "delete" ->
         Request("DeleteSecret",
                 Some([SecretId |-> opts.name,
                       RecoveryWindowInDays |-> opts.recoveryDays,
                       ForceDeleteWithoutRecovery |-> opts.forceDeleteWithoutRecovery]))

\* The identity check of createClient is answered.  When it failed the adapter
\* function rejects with its error, which the action hands to exitWithError;
\* otherwise the function goes on to its vault request (createSecret and
\* listSecrets parse their tags first).
AdminSts ==
  \E outcome \in StsOutcomes :
    /\ pc = "sts" /\ cmd \in AdminCmds
    /\ identity' = Identity(IF outcome.ok THEN "ok" ELSE "failed", outcome.error)
    /\ IF ensureConnected(outcome).threw
       THEN /\ ExitWithError(ensureConnected(outcome).err)
            /\ UNCHANGED requests
       ELSE IF cmd \in {"create", "list"} /\ parseTags(opts.tag).threw
       THEN /\ ExitWithError(parseTags(opts.tag).err)
            /\ UNCHANGED requests
       ELSE /\ pc' = "sm"
            /\ requests' = Append(requests, AdminRequest)
            /\ UNCHANGED <<out, err, exitCode>>
    /\ UNCHANGED <<cmd, opts, called, failure, secrets, result, response,
                   listed, pages, fs, spawned>>
    /\ UNCHANGED <<processEnv, valueVars, envVars, pureVars>>

\* Faulty variant: listSecrets returns what it has collected when a page
\* request fails.
AdminSmFail_Partial ==
  \E e \in AdminErrors :
    /\ pc = "sm" /\ cmd \in AdminCmds
    /\ failure' = Some(e)
    /\ IF cmd = "list"
       THEN /\ pc' = "exited"
            /\ result' = Some(listed)
            /\ exitCode' = Some(0)
            /\ out' = Append(out, [text |-> "partial", rows |-> listed])
            /\ UNCHANGED err
       ELSE /\ ExitWithError(mapAwsError(e, Some(opts.name)))
            /\ UNCHANGED result
    /\ UNCHANGED <<cmd, opts, requests, called, identity, secrets,
                   response, listed, pages, fs, spawned>>
    /\ UNCHANGED <<processEnv, valueVars, envVars, pureVars>>

\* The vault request rejects: mapAwsError translates, exitWithError reports.
AdminSmFail ==
  \E e \in AdminErrors :
    /\ pc = "sm" /\ cmd \in AdminCmds
    /\ failure' = Some(e)
    /\ ExitWithError(mapAwsError(e, IF cmd = "list" THEN None ELSE Some(opts.name)))
    /\ UNCHANGED <<cmd, opts, requests, called, identity, secrets, result,
                   response, listed, pages, fs, spawned>>
    /\ UNCHANGED <<processEnv, valueVars, envVars, pureVars>>

\* What the vault answers.  The answers are the vault's to choose; the model
\* lets a DescribeSecret answer carry the stored SecretString as well, so
\* that it is getSecretMetadata's projection that keeps the value out.
WriteResponses(name) ==
  { [ARN |-> Some("arn:1"), Name |-> Some(name), VersionId |-> Some("ver-1")] }

VaultValues == {"{\"K\":\"v\"}", "top secret"}

VaultTags ==
  { None,
    Some(<<[Key |-> Some(<<"k">>), Value |-> Some(<<"k">>)]>>),
    Some(<<[Key |-> Some(<<"k">>), Value |-> None]>>) }

DescribeResponses(name) ==
  { [ Name |-> Some(name), ARN |-> Some("arn:1"), Description |-> d,
      KmsKeyId |-> None, DeletedDate |-> None,
      LastChangedDate |-> Some("2024-02-01"), LastAccessedDate |-> None,
      CreatedDate |-> Some("2024-01-01"),
      VersionIdsToStages |-> Some("ver-1:AWSCURRENT"), Tags |-> t,
      SecretString |-> v ] :
    d \in Opt({"about"}), t \in VaultTags, v \in VaultValues }

DeleteResponses(name) ==
  { [ARN |-> Some("arn:1"), Name |-> Some(name), DeletionDate |-> Some("2024-03-01")] }

\* createSecret / updateSecret: the returned record
WriteResult(r) == [arn |-> r.ARN, name |-> r.Name, versionId |-> r.VersionId]

\* Faulty variant: the description is taken from the secret's value.
MetadataResult_Leak(r) ==
  [ name |-> r.Name, arn |-> r.ARN, description |-> Some(r.SecretString),
    kmsKeyId |-> r.KmsKeyId, deletedDate |-> formatDate(r.DeletedDate),
    lastChangedDate |-> formatDate(r.LastChangedDate),
    lastAccessedDate |-> formatDate(r.LastAccessedDate),
    createdDate |-> formatDate(r.CreatedDate),
    versionIdsToStages |-> r.VersionIdsToStages,
    tags |-> tagsToRecord(r.Tags) ]

\* getSecretMetadata: the returned record
MetadataResult(r) ==
  [ name |-> r.Name, arn |-> r.ARN, description |-> r.Description,
    kmsKeyId |-> r.KmsKeyId, deletedDate |-> formatDate(r.DeletedDate),
    lastChangedDate |-> formatDate(r.LastChangedDate),
    lastAccessedDate |-> formatDate(r.LastAccessedDate),
    createdDate |-> formatDate(r.CreatedDate),
    versionIdsToStages |-> r.VersionIdsToStages,
    tags |-> tagsToRecord(r.Tags) ]

\* the row `aws secret get` prints
MetadataRow(m) ==
  [ name |-> m.name, arn |-> m.arn, description |-> m.description,
    kmsKeyId |-> m.kmsKeyId, createdDate |-> m.createdDate,
    lastChangedDate |-> m.lastChangedDate, deletedDate |-> m.deletedDate ]

MetadataHeaders ==
  <<"name", "arn", "description", "kmsKeyId", "createdDate", "lastChangedDate",
    "deletedDate">>

\* deleteSecret: the returned record
DeleteResult(r) ==
  [arn |-> r.ARN, name |-> r.Name, deletedDate |-> formatDate(r.DeletionDate)]

CreateOk ==
  \E r \in WriteResponses(opts.name) :
    /\ pc = "sm" /\ cmd = "create"
    /\ response' = Some(r)
    /\ result' = Some(WriteResult(r))
    /\ PrintResult(<<"name", "arn", "versionId">>, <<WriteResult(r)>>)
    /\ UNCHANGED <<cmd, opts, requests, called, identity, failure, secrets, listed, pages,
                   fs, spawned>>
    /\ UNCHANGED <<processEnv, valueVars, envVars, pureVars>>

UpdateOk ==
  \E r \in WriteResponses(opts.name) :
    /\ pc = "sm" /\ cmd = "update"
    /\ response' = Some(r)
    /\ result' = Some(WriteResult(r))
    /\ PrintResult(<<"name", "arn", "versionId">>, <<WriteResult(r)>>)
    /\ UNCHANGED <<cmd, opts, requests, called, identity, failure, secrets, listed, pages,
                   fs, spawned>>
    /\ UNCHANGED <<processEnv, valueVars, envVars, pureVars>>

GetOk ==
  \E r \in DescribeResponses(opts.name) :
    /\ pc = "sm" /\ cmd = "get"
    /\ response' = Some(r)
    /\ result' = Some(MetadataResult(r))
    /\ PrintResult(MetadataHeaders, <<MetadataRow(MetadataResult(r))>>)
    /\ UNCHANGED <<cmd, opts, requests, called, identity, failure, secrets, listed, pages,
                   fs, spawned>>
    /\ UNCHANGED <<processEnv, valueVars, envVars, pureVars>>

DeleteOk ==
  \E r \in DeleteResponses(opts.name) :
    /\ pc = "sm" /\ cmd = "delete"
    /\ response' = Some(r)
    /\ result' = Some(DeleteResult(r))
    /\ PrintResult(<<"name", "arn", "deletedDate">>, <<DeleteResult(r)>>)
    /\ UNCHANGED <<cmd, opts, requests, called, identity, failure, secrets, listed, pages,
                   fs, spawned>>
    /\ UNCHANGED <<processEnv, valueVars, envVars, pureVars>>

\* ----------------------------------------------------------- listSecrets
ListEntry(name, tags) ==
  [ Name |-> name, ARN |-> Some("arn:1"), Description |-> None,
    LastChangedDate |-> Some("2024-02-01"), Tags |-> tags ]

VaultTag(key, value) == [Key |-> key, Value |-> value]

\* The secrets the vault may list.  Name, Tags, Key and Value are optional in
\* the SDK's types, and listSecrets provides for each being absent.
ListEntries ==
  { ListEntry(Some(<<"a">>), Some(<<VaultTag(Some(<<"k">>), Some(<<"k">>)),
                                    VaultTag(Some(<<"j">>), Some(<<"j">>))>>)),
    ListEntry(Some(<<"b", "a">>), Some(<<VaultTag(Some(<<"k">>), Some(<<"k">>))>>)),
    ListEntry(Some(<<"a", "b">>), Some(<<VaultTag(None, Some(<<"k">>)),
                                         VaultTag(Some(<<"k">>), None)>>)),
    ListEntry(None, None) }

NextTokens == {<<>>, <<"n">>}

\* SecretList of an answer: absent, empty, one secret, or two named ones
ListPages ==
  {None, Some(<<>>)} \cup {Some(<<e>>) : e \in ListEntries}
  \cup {Some(<<e1, e2>>) : e1, e2 \in {e \in ListEntries : e.Tags # None /\ Len(Val(e.Name)) = 2}}

ListResponses ==
  { [SecretList |-> l, NextToken |-> t] : l \in ListPages, t \in Opt(NextTokens) }

\* String.prototype.startsWith
StartsWith(s, prefix) ==
  Len(prefix) <= Len(s) /\ SubSeq(s, 1, Len(prefix)) = prefix

\* whether listSecrets keeps a secret of a page
ListKeeps(secret, prefix, requiredTags) ==
  /\ ~(Truthy(prefix) /\ Truthy(secret.Name)
       /\ ~StartsWith(Val(secret.Name), Val(prefix)))
  /\ \/ ~(IsSet(requiredTags) /\ Len(Val(requiredTags)) > 0)
     \/ LET available == tagsToRecord(secret.Tags)
        IN  \A i \in 1..Len(Val(requiredTags)) :
              LET tag == Val(requiredTags)[i]
              IN  /\ tag.Key # <<>> /\ tag.Value # <<>>
                  /\ IsSet(available)
                  /\ tag.Key \in DOMAIN Val(available)
                  /\ Val(available)[tag.Key] = tag.Value

ListSummary(secret) ==
  [ name |-> IF Truthy(secret.Name) THEN Val(secret.Name) ELSE <<>>,
    arn |-> secret.ARN, description |-> secret.Description,
    lastChangedDate |-> formatDate(secret.LastChangedDate) ]

RECURSIVE ListFilter(_, _, _)
ListFilter(page, prefix, requiredTags) ==
  IF page = <<>> THEN <<>>
  ELSE (IF ListKeeps(Head(page), prefix, requiredTags)
        THEN <<ListSummary(Head(page))>> ELSE <<>>)
       \o ListFilter(Tail(page), prefix, requiredTags)

ListRow(secret) ==
  [ name |-> secret.name, description |-> secret.description,
    lastChangedDate |-> secret.lastChangedDate ]

ListRequestCount == Cardinality({i \in 1..Len(requests) : requests[i].api = "ListSecrets"})

\* One answered ListSecrets request: filter the page, then either request the
\* next page or return what was collected.  The vault's chain of pages is
\* finite: the MaxPages-th page carries no token.
ListPage ==
  \E r \in ListResponses :
    /\ pc = "sm" /\ cmd = "list"
    /\ ListRequestCount = MaxPages => ~Truthy(r.NextToken)
    /\ response' = Some(r)
    /\ LET page == IF IsSet(r.SecretList) THEN Val(r.SecretList) ELSE <<>>
           all  == listed \o ListFilter(page, opts.prefix, parseTags(opts.tag).val)
       IN  /\ listed' = all
           /\ pages' = Append(pages, r)
           /\ IF Truthy(r.NextToken)
              THEN /\ requests' = Append(requests, ListSecretsCommand(r.NextToken))
                   /\ UNCHANGED <<pc, out, err, exitCode, result>>
              ELSE /\ result' = Some(all)
                   /\ PrintResult(<<"name", "description", "lastChangedDate">>,
                                  [i \in 1..Len(all) |-> ListRow(all[i])])
                   /\ UNCHANGED requests
    /\ UNCHANGED <<cmd, opts, called, identity, failure, secrets, fs, spawned>>
    /\ UNCHANGED <<processEnv, valueVars, envVars, pureVars>>

Next ==
  \/ NewProcess
  \/ InjectStart
  \/ InjectSts
  \/ InjectGet
  \/ CreateStart
  \/ UpdateStart
  \/ ListStart
  \/ GetStart
  \/ DeleteStart
  \/ AdminSts
  \/ AdminSmFail
  \/ CreateOk
  \/ UpdateOk
  \/ GetOk
  \/ DeleteOk
  \/ ListPage

Spec == Init /\ [][Next]_vars

\* ------------------------------- cli/helpers.ts: resolveSecretValue, readStdin
\* --value: not given, the empty text, a text
ValueTexts == {None, Some(<<>>), Some(<<"v">>)}
\* --file: not given, the empty path, a path
FileArgs == {None, Some(<<>>), Some(<<"f">>)}
\* what the file may hold
FileTexts == {<<"s">>, <<"s", "\n">>, <<"s", "\r", "\n">>, <<"\n", "\n">>}
\* what one 'data' event may carry
Chunks == {<<"a">>, <<"\n">>, <<"\r">>, <<"a", "\r", "\n">>}
StreamErrors == {Msg("EIO")}
StdinEvents == {"data", "end", "error"}
\* an event of the stream, with the chunk or the error it carries
Event(type, chunk, error) == [type |-> type, chunk |-> chunk, error |-> error]

MultipleSources == Msg("Use only one secret value source: --value, --value-stdin, or --file.")
NoStdin == Msg("No stdin detected. Pipe a value when using --value-stdin.")

\* [Boolean(value), Boolean(valueStdin), Boolean(valueFile)].filter(Boolean).length
providedSources(value, valueStdin, valueFile) ==
  (IF Truthy(value) THEN 1 ELSE 0) + (IF valueStdin THEN 1 ELSE 0)
    + (IF Truthy(valueFile) THEN 1 ELSE 0)

\* Faulty variant: the sources are not counted.
resolveSecretValueFrom_NoCount(value, valueStdin, valueFile, isTTY) ==
  IF valueStdin
  THEN IF isTTY THEN [do |-> "throw", err |-> NoStdin] ELSE [do |-> "readStdin"]
  ELSE IF Truthy(valueFile) THEN [do |-> "readFile"]
  ELSE [do |-> "return"]

\* Faulty variant: --file is looked at before --value-stdin.
resolveSecretValueFrom_FileFirst(value, valueStdin, valueFile, isTTY) ==
  IF Truthy(valueFile) THEN [do |-> "readFile"]
  ELSE IF providedSources(value, valueStdin, valueFile) > 1
  THEN [do |-> "throw", err |-> MultipleSources]
  ELSE IF valueStdin
  THEN IF isTTY THEN [do |-> "throw", err |-> NoStdin] ELSE [do |-> "readStdin"]
  ELSE [do |-> "return"]

\* Faulty variant: standard input is read whether it is a TTY or not.
resolveSecretValueFrom_NoTTY(value, valueStdin, valueFile, isTTY) ==
  IF providedSources(value, valueStdin, valueFile) > 1
  THEN [do |-> "throw", err |-> MultipleSources]
  ELSE IF valueStdin THEN [do |-> "readStdin"]
  ELSE IF Truthy(valueFile) THEN [do |-> "readFile"]
  ELSE [do |-> "return"]

\* resolveSecretValue(value, valueStdin, valueFile), up to its first await:
\* what the call does, given whether standard input is a TTY.
resolveSecretValueFrom(value, valueStdin, valueFile, isTTY) ==
  IF providedSources(value, valueStdin, valueFile) > 1
  THEN [do |-> "throw", err |-> MultipleSources]
  ELSE IF valueStdin
  THEN IF isTTY THEN [do |-> "throw", err |-> NoStdin] ELSE [do |-> "readStdin"]
  ELSE IF Truthy(valueFile) THEN [do |-> "readFile"]
  ELSE [do |-> "return"]

\* resolve(value) and reject(error) of the call's promise: only the first of
\* them settles it.
resolve(v) ==
  promise' = IF promise.state = "pending"
             THEN [state |-> "resolved", value |-> v, error |-> None,
                   calls |-> promise.calls + 1]
             ELSE [promise EXCEPT !.calls = @ + 1]
reject(e) ==
  promise' = IF promise.state = "pending"
             THEN [state |-> "rejected", value |-> None, error |-> Some(e),
                   calls |-> promise.calls + 1]
             ELSE [promise EXCEPT !.calls = @ + 1]

\* Buffer.concat(chunks).toString('utf8')
RECURSIVE BufferConcat(_)
BufferConcat(cs) == IF cs = <<>> THEN <<>> ELSE Head(cs) \o BufferConcat(Tail(cs))

\* Faulty variant: the 'error' listener stays attached.
cleanup_KeepError(listeners) == listeners \cap {"error"}

\* readStdin, cleanup(): stdin.off for 'data', 'end' and 'error'
cleanup(listeners) == listeners \ {"data", "end", "error"}

ValueInit ==
  /\ call = NoCall
  /\ rpc = "start"
  /\ stream \in {Stdin(TRUE), Stdin(FALSE)}
  /\ chunks = <<>>
  /\ promise = Pending
  /\ disk \in {File(FALSE, <<>>)} \cup {File(TRUE, t) : t \in FileTexts}

\* resolveSecretValue is called and runs to its first await.  readStdin
\* attaches its three listeners at once.
ValueStart ==
  /\ rpc = "start"
  /\ \E value \in ValueTexts, valueStdin \in BOOLEAN, valueFile \in FileArgs :
       LET first == resolveSecretValueFrom(value, valueStdin, valueFile, stream.isTTY)
       IN  /\ call' = [value |-> value, valueStdin |-> valueStdin,
                       valueFile |-> valueFile]
           /\ CASE first.do = "throw" ->
                     /\ rpc' = "settled"
                     /\ reject(first.err)
                     /\ UNCHANGED <<stream, disk>>
                [] first.do = "readStdin" ->
                     /\ rpc' = "reading"
                     /\ stream' = [stream EXCEPT !.listeners = StdinEvents,
                                                 !.attached = @ + 3]
                     /\ UNCHANGED <<promise, disk>>
                [] first.do = "readFile" ->
                     /\ rpc' = "readFile"
                     /\ disk' = [disk EXCEPT !.reads = @ + 1]
                     /\ UNCHANGED <<promise, stream>>
                [] first.do = "return" ->
                     /\ rpc' = "settled"
                     /\ resolve(value)
                     /\ UNCHANGED <<stream, disk>>
  /\ UNCHANGED chunks
  /\ UNCHANGED <<cliVars, envVars, pureVars>>

\* the events of the stream go on after the promise is settled
StreamLive == rpc \in {"reading", "settled"} /\ stream.attached > 0
                /\ Len(stream.emitted) < MaxEvents

\* 'data': onData pushes the chunk
StdinData ==
  /\ StreamLive
  /\ \E chunk \in Chunks :
       /\ chunks' = IF "data" \in stream.listeners THEN Append(chunks, chunk) ELSE chunks
       /\ stream' = [stream EXCEPT !.emitted = Append(@, Event("data", chunk, None))]
  /\ UNCHANGED <<call, rpc, promise, disk>>
  /\ UNCHANGED <<cliVars, envVars, pureVars>>

\* 'end': the once-listener is removed, then onEnd cleans up and resolves
StdinEnd ==
  /\ StreamLive
  /\ IF "end" \in stream.listeners
     THEN /\ stream' = [stream EXCEPT !.emitted = Append(@, Event("end", <<>>, None)),
                                      !.listeners = cleanup(@ \ {"end"})]
          /\ resolve(Some(StripNewline(BufferConcat(chunks))))
          /\ rpc' = "settled"
     ELSE /\ stream' = [stream EXCEPT !.emitted = Append(@, Event("end", <<>>, None))]
          /\ UNCHANGED <<promise, rpc>>
  /\ UNCHANGED <<call, chunks, disk>>
  /\ UNCHANGED <<cliVars, envVars, pureVars>>

\* 'error': the once-listener is removed, then onError cleans up and rejects
StdinError ==
  /\ StreamLive
  /\ \E error \in StreamErrors :
       IF "error" \in stream.listeners
       THEN /\ stream' = [stream EXCEPT
                             !.emitted = Append(@, Event("error", <<>>, Some(error))),
                             !.listeners = cleanup(@ \ {"error"})]
            /\ reject(error)
            /\ rpc' = "settled"
       ELSE /\ stream' = [stream EXCEPT
                             !.emitted = Append(@, Event("error", <<>>, Some(error)))]
            /\ UNCHANGED <<promise, rpc>>
  /\ UNCHANGED <<call, chunks, disk>>
  /\ UNCHANGED <<cliVars, envVars, pureVars>>

\* readFile(valueFile, 'utf8') settles
ReadFileDone ==
  /\ rpc = "readFile"
  /\ rpc' = "settled"
  /\ IF disk.exists
     THEN resolve(Some(StripNewline(disk.content)))
     ELSE reject(Msg("ENOENT"))
  /\ UNCHANGED <<call, stream, chunks, disk>>
  /\ UNCHANGED <<cliVars, envVars, pureVars>>

NextValue ==
  \/ ValueStart
  \/ StdinData
  \/ StdinEnd
  \/ StdinError
  \/ ReadFileDone

InitValue == CliIdle /\ EnvIdle /\ PureIdle /\ ValueInit

SpecValue == InitValue /\ [][NextValue]_vars

\* ------------------------------------------- cli/helpers.ts: parseEnvSecrets
ExportPrefix == <<"e", "x", "p", "o", "r", "t", " ">>

\* The lines the input text is made of: entries, the export form (which
\* repeats a key with another value), spacing around a value that holds a
\* second "=", a comment, a blank line, and
\* lines that are not of the form KEY=value.
LineTexts ==
  { <<"A", "=", "1">>,
    <<"B", "=">>,
    ExportPrefix \o <<"A", "=", "3">>,
    <<" ">> \o ExportPrefix \o <<" ", "B", " ", "=", " ", "x", "=", "y", " ">>,
    <<"#", "A", "=", "1">>,
    <<" ", "\t">>,
    <<"A">>,
    <<" ", "=", "1">>,
    ExportPrefix \o <<"=", "1">> }

LineBreaks == {<<"\n">>, <<"\r", "\n">>}

RECURSIVE JoinLines(_, _)
JoinLines(ls, br) ==
  IF ls = <<>> THEN <<>>
  ELSE IF Len(ls) = 1 THEN ls[1]
  ELSE ls[1] \o br \o JoinLines(Tail(ls), br)

\* the texts given to parseEnvSecrets
EnvContents ==
  { JoinLines(ls, br) : ls \in SeqsUpTo(LineTexts, MaxLines), br \in LineBreaks }

\* content.split(/\r?\n/)
RECURSIVE SplitFrom(_, _, _)
SplitFrom(text, i, line) ==
  IF i > Len(text) THEN <<line>>
  ELSE IF text[i] = "\n" THEN <<line>> \o SplitFrom(text, i + 1, <<>>)
  ELSE IF text[i] = "\r" /\ i < Len(text) /\ text[i + 1] = "\n"
  THEN <<line>> \o SplitFrom(text, i + 2, <<>>)
  ELSE SplitFrom(text, i + 1, Append(line, text[i]))

split(text) == SplitFrom(text, 1, <<>>)

MalformedLine(lineNumber, line) ==
  [ text |-> "Malformed env line. Expected KEY=value or export KEY=value.",
    subject |-> Some(line), line |-> lineNumber ]

\* Faulty variant: a line that is not KEY=value is passed over.
parseEnvLine_SkipMalformed(line, lineNumber) ==
  LET trimmed == Trim(line)
      candidate == IF StartsWith(trimmed, ExportPrefix)
                   THEN TrimStart(SubSeq(trimmed, Len(ExportPrefix) + 1, Len(trimmed)))
                   ELSE trimmed
      separatorIndex == IndexOf(candidate, "=") - 1
      key == Trim(SubSeq(candidate, 1, separatorIndex))
      value == Trim(SubSeq(candidate, separatorIndex + 2, Len(candidate)))
  IN  IF trimmed = <<>> \/ trimmed[1] = "#" THEN Ok(None)
      ELSE IF separatorIndex <= 0 THEN Ok(None)
      ELSE IF key = <<>> THEN Ok(None)
      ELSE Ok(Some([key |-> key, value |-> value]))

\* the 1-based position of the last c in s, 0 when there is none
LastIndexOf(s, c) ==
  IF \E i \in 1..Len(s) : s[i] = c
  THEN CHOOSE i \in 1..Len(s) : s[i] = c /\ \A j \in (i + 1)..Len(s) : s[j] # c
  ELSE 0

\* Faulty variant: the line is split at its last "=".
parseEnvLine_LastEquals(line, lineNumber) ==
  LET trimmed == Trim(line)
      candidate == IF StartsWith(trimmed, ExportPrefix)
                   THEN TrimStart(SubSeq(trimmed, Len(ExportPrefix) + 1, Len(trimmed)))
                   ELSE trimmed
      separatorIndex == LastIndexOf(candidate, "=") - 1
      key == Trim(SubSeq(candidate, 1, separatorIndex))
      value == Trim(SubSeq(candidate, separatorIndex + 2, Len(candidate)))
  IN  IF trimmed = <<>> \/ trimmed[1] = "#" THEN Ok(None)
      ELSE IF separatorIndex <= 0 THEN Throw(MalformedLine(lineNumber, line))
      ELSE IF key = <<>> THEN Throw(MalformedLine(lineNumber, line))
      ELSE Ok(Some([key |-> key, value |-> value]))

\* parseEnvLine(line, lineNumber); separatorIndex is 0-based as in the code
parseEnvLine(line, lineNumber) ==
  LET trimmed == Trim(line)
      candidate == IF StartsWith(trimmed, ExportPrefix)
                   THEN TrimStart(SubSeq(trimmed, Len(ExportPrefix) + 1, Len(trimmed)))
                   ELSE trimmed
      separatorIndex == IndexOf(candidate, "=") - 1
      key == Trim(SubSeq(candidate, 1, separatorIndex))
      value == Trim(SubSeq(candidate, separatorIndex + 2, Len(candidate)))
  IN  IF trimmed = <<>> \/ trimmed[1] = "#" THEN Ok(None)
      ELSE IF separatorIndex <= 0 THEN Throw(MalformedLine(lineNumber, line))
      ELSE IF key = <<>> THEN Throw(MalformedLine(lineNumber, line))
      ELSE Ok(Some([key |-> key, value |-> value]))

\* Faulty variant: the entry carries the loop index.
EnvSecretEntry_ZeroBased(p, i) == [key |-> p.key, value |-> p.value, line |-> i]

\* entries.push({ key, value, line: index + 1 })
EnvSecretEntry(p, i) == [key |-> p.key, value |-> p.value, line |-> i + 1]

\* Faulty variant: a duplicate is dropped without a record.
SkipDuplicate_Silent(skips, p, i) == skips

\* skipped.push({ key, line: index + 1, reason: 'duplicate key' })
SkipDuplicate(skips, p, i) ==
  Append(skips, [key |-> p.key, line |-> i + 1, reason |-> "duplicate key"])

\* The secrets a vault is taken to hold for the file writer: up to MaxSecrets
\* entries with distinct keys, in insertion order, no value with a newline.
SecretKeys == {<<"K">>, <<"J">>}
SecretValues == {<<"v">>, <<" ", "v">>, <<>>}
SecretMaps ==
  { Parsed("object", es) :
      es \in { q \in SeqsUpTo([key : SecretKeys, value : SecretValues], MaxSecrets) :
                 \A i, j \in 1..Len(q) : q[i].key = q[j].key => i = j } }

\* the texts objectToExport writes for them
ExportedContents == { Val(objectToExport(obj).val) : obj \in SecretMaps }

EnvInit ==
  /\ content \in EnvContents \cup ExportedContents
  /\ index = 0
  /\ seenKeys = {}
  /\ entries = <<>>
  /\ skipped = <<>>
  /\ envResult = None

\* one iteration of the loop over the lines
EnvLine ==
  /\ envResult = None
  /\ index < Len(split(content))
  /\ LET line == parseEnvLine(split(content)[index + 1], index + 1)
     IN  IF line.threw
         THEN /\ envResult' = Some(Throw(line.err))
              /\ UNCHANGED <<index, seenKeys, entries, skipped>>
         ELSE /\ index' = index + 1
              /\ UNCHANGED envResult
              /\ IF ~IsSet(line.val)
                 THEN UNCHANGED <<seenKeys, entries, skipped>>
                 ELSE IF Val(line.val).key \in seenKeys
                 THEN /\ skipped' = SkipDuplicate(skipped, Val(line.val), index)
                      /\ UNCHANGED <<seenKeys, entries>>
                 ELSE /\ seenKeys' = seenKeys \cup {Val(line.val).key}
                      /\ entries' = Append(entries, EnvSecretEntry(Val(line.val), index))
                      /\ UNCHANGED skipped
  /\ UNCHANGED content
  /\ UNCHANGED <<cliVars, valueVars, pureVars>>

\* return { entries, skipped }
EnvReturn ==
  /\ envResult = None
  /\ index = Len(split(content))
  /\ envResult' = Some(Ok([entries |-> entries, skipped |-> skipped]))
  /\ UNCHANGED <<content, index, seenKeys, entries, skipped>>
  /\ UNCHANGED <<cliVars, valueVars, pureVars>>

NextEnv ==
  \/ EnvLine
  \/ EnvReturn

InitEnv == CliIdle /\ ValueIdle /\ PureIdle /\ EnvInit

SpecEnv == InitEnv /\ [][NextEnv]_vars

\* --------------------------------------------- cli/helpers.ts: resolveAwsScope
\* A value of the global options (Record<string, unknown>): undefined, a
\* string, or something else.
Undefined == [type |-> "undefined", text |-> <<>>]
StringValue(t) == [type |-> "string", text |-> t]
GlobalValues == {Undefined, StringValue(<<>>), StringValue(<<"b">>), StringValue(<<"c">>),
                 [type |-> "boolean", text |-> <<>>]}
LocalValues == {None, Some(<<>>), Some(<<"a">>), Some(<<"d">>)}

\* Faulty variant: a global profile hides the local one.
ScopeField_GlobalFirst(local, global) ==
  IF global.type = "string" THEN Some(global.text) ELSE local

\* options.x || (typeof globalOptions.x === 'string' ? globalOptions.x : undefined)
ScopeField(local, global) ==
  IF Truthy(local) THEN local
  ELSE IF global.type = "string" THEN Some(global.text)
  ELSE None

\* resolveAwsScope(options, command); `command` is undefined or has
\* optsWithGlobals
resolveAwsScope(options, command) ==
  LET globalOptions == IF IsSet(command) THEN Val(command)
                       ELSE [profile |-> Undefined, region |-> Undefined]
  IN  [ profile |-> ScopeField(options.profile, globalOptions.profile),
        region  |-> ScopeField(options.region, globalOptions.region) ]

ScopeInit ==
  /\ fn = "resolveAwsScope"
  /\ args \in [ options : [profile : LocalValues, region : LocalValues],
                 command : Opt([profile : GlobalValues, region : GlobalValues]) ]
  /\ ret = None

ScopeCall ==
  /\ fn = "resolveAwsScope" /\ ret = None
  /\ ret' = Some(resolveAwsScope(args.options, args.command))
  /\ UNCHANGED <<fn, args>>
  /\ UNCHANGED <<cliVars, valueVars, envVars>>

\* ------------------------------------------------- cli/helpers.ts: renderTable
NoResults == <<"N", "o", " ", "r", "e", "s", "u", "l", "t", "s", ".">>

\* The columns and rows given to renderTable: labels shorter and longer than
\* the cells, and rows in which a cell can be missing.
TableHeaders ==
  { [key |-> "n", label |-> <<"N">>], [key |-> "v", label |-> <<"V", "A", "L">>] }
TableRows ==
  [ {"n", "v"} -> {None, Some(<<"x">>), Some(<<"w", "x", "y", "z">>)} ]

Max(S) == CHOOSE m \in S : \A x \in S : x <= m

\* String(row[header.key] || '')
Cell(row, header) ==
  IF Truthy(row[header.key]) THEN Val(row[header.key]) ELSE <<>>

\* c.repeat(n)
repeat(c, n) == [i \in 1..n |-> c]

\* Faulty variant: the padding is put in front (padStart).
padEnd_Start(text, n) ==
  IF n > Len(text) THEN repeat(" ", n - Len(text)) \o text ELSE text

\* text.padEnd(n)
padEnd(text, n) ==
  IF n > Len(text) THEN text \o repeat(" ", n - Len(text)) ELSE text

\* parts.join(sep)
RECURSIVE join(_, _)
join(parts, sep) ==
  IF parts = <<>> THEN <<>>
  ELSE IF Len(parts) = 1 THEN parts[1]
  ELSE parts[1] \o sep \o join(Tail(parts), sep)

\* renderTable(headers, rows)
renderTable(headers, rows) ==
  IF Len(rows) = 0 THEN NoResults
  ELSE
    LET widths == [i \in 1..Len(headers) |->
                     Max({Len(headers[i].label)}
                           \cup {Len(Cell(rows[r], headers[i])) : r \in 1..Len(rows)})]
        headerLine == join([i \in 1..Len(headers) |->
                              padEnd(headers[i].label, widths[i])], <<" ", " ">>)
        divider == join([i \in 1..Len(headers) |-> repeat("-", widths[i])],
                        <<" ", " ">>)
        lines == [r \in 1..Len(rows) |->
                    join([i \in 1..Len(headers) |->
                            padEnd(Cell(rows[r], headers[i]), widths[i])], <<" ", " ">>)]
    IN  join(<<headerLine, divider>> \o lines, <<"\n">>)

TableInit ==
  /\ fn = "renderTable"
  /\ args \in [ headers : SeqsUpTo(TableHeaders, MaxCols),
                 rows : SeqsUpTo(TableRows, MaxRows) ]
  /\ ret = None

TableCall ==
  /\ fn = "renderTable" /\ ret = None
  /\ ret' = Some(renderTable(args.headers, args.rows))
  /\ UNCHANGED <<fn, args>>
  /\ UNCHANGED <<cliVars, valueVars, envVars>>

\* ------------------------------------------ vaults/aws-config.ts
\* fromIni({ profile })
fromIni(profile) == [provider |-> "fromIni", profile |-> profile]

\* Faulty variant: the environment's keys are preferred to the profile.
getCredentialsProvider_EnvFirst(options, env) ==
  IF Truthy(env.AWS_ACCESS_KEY_ID) /\ Truthy(env.AWS_SECRET_ACCESS_KEY)
  THEN None
  ELSE IF Truthy(options.profile)
  THEN Some(fromIni(Val(options.profile)))
  ELSE Some(fromIni(<<"default">>))

\* getCredentialsProvider(options), with process.env as `env`
getCredentialsProvider(options, env) ==
  IF Truthy(options.profile)
  THEN Some(fromIni(Val(options.profile)))
  ELSE IF Truthy(env.AWS_ACCESS_KEY_ID) /\ Truthy(env.AWS_SECRET_ACCESS_KEY)
  THEN None
  ELSE Some(fromIni(<<"default">>))

\* getEndpoint(): a || b gives a when a is truthy, else b as it is
getEndpoint(env) ==
  IF Truthy(env.AWS_ENDPOINT_URL) THEN env.AWS_ENDPOINT_URL
  ELSE env.AWS_SECRETS_MANAGER_ENDPOINT

\* buildAwsClientConfig(options): `keys` are the keys the config object has
buildAwsClientConfig(options, env) ==
  LET endpoint == getEndpoint(env)
  IN  [ region |-> options.region,
        credentials |-> getCredentialsProvider(options, env),
        endpoint |-> IF Truthy(endpoint) THEN endpoint ELSE None,
        keys |-> {"region", "credentials"}
                   \cup (IF Truthy(endpoint) THEN {"endpoint"} ELSE {}) ]

ConfigInit ==
  /\ fn = "buildAwsClientConfig"
  /\ args \in [ options : [ profile : {None, Some(<<>>), Some(<<"p">>)},
                             region : Opt({<<"r">>}) ],
                 env : [ AWS_ACCESS_KEY_ID : {None, Some(<<>>), Some(<<"i">>)},
                         AWS_SECRET_ACCESS_KEY : {None, Some(<<>>), Some(<<"s">>)},
                         AWS_ENDPOINT_URL : {None, Some(<<>>), Some(<<"u">>)},
                         AWS_SECRETS_MANAGER_ENDPOINT : {None, Some(<<>>), Some(<<"m">>)} ] ]
  /\ ret = None

ConfigCall ==
  /\ fn = "buildAwsClientConfig" /\ ret = None
  /\ ret' = Some(buildAwsClientConfig(args.options, args.env))
  /\ UNCHANGED <<fn, args>>
  /\ UNCHANGED <<cliVars, valueVars, envVars>>

NextPure ==
  \/ ScopeCall
  \/ TableCall
  \/ ConfigCall

InitPure ==
  /\ CliIdle /\ ValueIdle /\ EnvIdle
  /\ \/ ScopeInit
     \/ TableInit
     \/ ConfigInit

SpecPure == InitPure /\ [][NextPure]_vars

\* ================================================================ properties
HasRequest(api) == \E i \in 1..Len(requests) : requests[i].api = api

FileExistsMsg(path) ==
  MsgFor("Error: File already exists and will not be overwritten", path)
ConfirmMsg == Msg("Delete requires --yes confirmation.")
RecoveryDaysMsg == Msg("Recovery days must be an integer between 7 and 30.")

\* C1: file mode never overwrites.  No step changes a file that exists, and
\* the step that ends an `aws -s <secret> -o <file>` invocation started on an
\* existing file leaves exit code 1, the 'already exists and will not be
\* overwritten' error as the last line of standard error, nothing on standard
\* output, and the file as it was.
C1_NoOverwrite ==
  [][ /\ fs.exists => fs' = fs
      /\ ( /\ cmd' = "inject" /\ pc # "exited" /\ pc' = "exited"
           /\ Truthy(opts'.secret) /\ Truthy(opts'.outFile)
           /\ fs.exists )
         => /\ exitCode' = Some(1)
            /\ Len(err') >= 1
            /\ err'[Len(err')] = FileExistsMsg(Val(opts'.outFile))
            /\ out' = <<>>
            /\ fs' = fs ]_vars

\* An invocation refused on the file that an earlier invocation wrote.
C1_Witness ==
  /\ cmd = "inject" /\ pc = "exited" /\ exitCode = Some(1)
  /\ Truthy(opts.secret) /\ Truthy(opts.outFile)
  /\ fs.exists /\ fs.mode = "0400"
  /\ Len(err) >= 1 /\ err[Len(err)] = FileExistsMsg(Val(opts.outFile))

\* the --recovery-days argument parses to an integer in 7..30
DaysInRange(arg) ==
  LET n == Number(arg) IN NumberIsInteger(n) /\ n.int >= 7 /\ n.int <= 30

\* C2 as stated: `aws secret delete` without --yes fails with the
\* confirmation-required error and exit code 1 whatever the other flags are,
\* and sends no DeleteSecret request.
C2_AlwaysConfirmError ==
  (cmd = "delete" /\ pc = "exited" /\ ~opts.yes)
    => /\ exitCode = Some(1)
       /\ err = <<ConfirmMsg>>
       /\ ~HasRequest("DeleteSecret")

\* C2 as the code has it: `aws secret delete` without --yes exits with code 1
\* having sent no request at all and printed nothing to standard output; its
\* one error is the confirmation-required error, unless --recovery-days does
\* not parse to an integer in 7..30, in which case it is the recovery-days
\* error of the option parser.
C2_NoYesNoDelete ==
  (cmd = "delete" /\ ~opts.yes)
    => /\ pc = "exited"
       /\ exitCode = Some(1)
       /\ requests = <<>>
       /\ out = <<>>
       /\ err = << IF IsSet(opts.recoveryDaysArg)
                      /\ ~DaysInRange(Val(opts.recoveryDaysArg))
                   THEN RecoveryDaysMsg ELSE ConfirmMsg >>

\* Refused for want of --yes although every other flag is against it: forced
\* deletion, a recovery window, an invalid name and an invalid --output.
C2_Witness ==
  /\ cmd = "delete" /\ pc = "exited" /\ ~opts.yes
  /\ opts.forceDeleteWithoutRecovery /\ IsSet(opts.recoveryDays)
  /\ opts.name = <<" ">> /\ opts.output = "xml"
  /\ err = <<ConfirmMsg>>

ValidationTexts ==
  { "Invalid secret name. Use only letters, numbers, and /_+=.@- characters.",
    "Invalid tag format. Use key=value.",
    "Secret value is required. Provide --value or --value-stdin.",
    "Nothing to update. Provide --value/--value-stdin, --description, or --kms-key-id.",
    "Use either --value or --value-stdin, not both.",
    "No stdin detected. Pipe a value when using --value-stdin.",
    "Delete requires --yes confirmation.",
    "Use either --recovery-days or --force-delete-without-recovery, not both.",
    "Recovery days must be an integer between 7 and 30.",
    "Invalid output format. Use json or table." }

\* C3: an administrative command that fails on a parsing or validation error
\* of its inputs has sent no network request.
C3_ValidationBeforeNetwork ==
  (cmd \in AdminCmds /\ pc = "exited" /\ err # <<>>
     /\ err[1].text \in ValidationTexts)
    => requests = <<>>

\* letters, digits and /_+=.@-
NameLetters ==
  { "A", "B", "C", "D", "E", "F", "G", "H", "I", "J", "K", "L", "M", "N", "O",
    "P", "Q", "R", "S", "T", "U", "V", "W", "X", "Y", "Z", "a", "b", "c", "d",
    "e", "f", "g", "h", "i", "j", "k", "l", "m", "n", "o", "p", "q", "r", "s",
    "t", "u", "v", "w", "x", "y", "z" }
NameDigits == {"0", "1", "2", "3", "4", "5", "6", "7", "8", "9"}
NameSymbols == {"/", "_", "+", "=", ".", "@", "-"}

AcceptableName(name) ==
  /\ name # <<>>
  /\ \A i \in 1..Len(name) : name[i] \in NameLetters \cup NameDigits \cup NameSymbols

NamedCalls == {"createSecret", "updateSecret", "getSecretMetadata", "deleteSecret"}

\* C4: createSecret, updateSecret, getSecretMetadata and deleteSecret called
\* with a name that is empty or has a character other than a letter, a digit
\* or one of /_+=.@- fail with the invalid-name error and send no request;
\* so whenever one of them has sent a request its name is acceptable.
C4_NameCheckedFirst ==
  (called \in NamedCalls)
    => /\ requests # <<>> => AcceptableName(opts.name)
       /\ ~AcceptableName(opts.name)
            => /\ pc = "exited"
               /\ requests = <<>>
               /\ exitCode = Some(1)
               /\ err = <<MsgFor("Invalid secret name. Use only letters, numbers, and /_+=.@- characters.",
                                 opts.name)>>

\* createSecret called with the empty name
C4_Witness ==
  /\ called = "createSecret" /\ opts.name = <<>> /\ pc = "exited"
  /\ requests = <<>> /\ exitCode = Some(1)

\* C5: a Secrets Manager request is sent only after the identity check of the
\* same call has succeeded, and the identity check is the first request; when
\* the identity check fails nothing but it has been sent, and an
\* administrative call has rejected with the identity check's error.
C5_IdentityFirst ==
  /\ \A i \in 1..Len(requests) :
       requests[i].api # "GetCallerIdentity"
         => i > 1 /\ requests[1] = StsRequest /\ identity.state = "ok"
  /\ identity.state = "failed" => requests = <<StsRequest>>
  /\ (identity.state = "failed" /\ cmd \in AdminCmds)
       => /\ pc = "exited"
          /\ result = None
          /\ exitCode = Some(1)
          /\ err = <<ErrorText(Val(identity.error))>>

\* an administrative command stopped by a failed identity check
C5_Witness ==
  /\ cmd = "update" /\ identity.state = "failed" /\ pc = "exited"
  /\ requests = <<StsRequest>>

\* a SecretString that gives secretsmanager() nothing to parse
UnusableSecretString(t) == ~IsSet(t) \/ Val(t) = "" \/ Val(t) = "not json"

\* C6: secretsmanager(options) never rejects, and after a failed identity
\* check, a rejected GetSecretValue, or a SecretString that is undefined,
\* empty or not JSON it has resolved to {}: a program given in process mode
\* is launched with the parent's environment as it is.
C6_FetchNeverRejects ==
  (cmd = "inject" /\ pc = "exited" /\ called = "secretsmanager")
    => /\ IsSet(secrets)
       /\ ( \/ identity.state = "failed"
            \/ IsSet(failure)
            \/ (IsSet(response) /\ UnusableSecretString(Val(response).SecretString)) )
          => /\ secrets = Some(EmptyObject)
             /\ (~Truthy(opts.outFile) /\ opts.program # <<>> /\ ~opts.testMode)
                  => spawned = <<[program |-> opts.program, env |-> ProcessEnv]>>

\* the program launched although GetSecretValue was rejected
C6_Witness ==
  /\ cmd = "inject" /\ pc = "exited" /\ IsSet(failure)
  /\ Val(failure).name = "ServiceError"
  /\ secrets = Some(EmptyObject)
  /\ spawned = <<[program |-> opts.program, env |-> ProcessEnv]>>

\* C7: what getSecretMetadata returns and what `aws secret get` prints are
\* the same whatever secret value the vault holds next to the metadata, and
\* the returned record has the ten metadata fields and no other.
C7_MetadataIndependent ==
  (cmd = "get" /\ IsSet(response))
    => \A v \in VaultValues :
         LET other == [Val(response) EXCEPT !.SecretString = v]
         IN  /\ result = Some(MetadataResult(other))
             /\ exitCode = Some(0)
                  => out = <<PrintData(opts.output, MetadataHeaders,
                                       <<MetadataRow(MetadataResult(other))>>)>>
             /\ DOMAIN Val(result) =
                  { "name", "arn", "description", "kmsKeyId", "deletedDate",
                    "lastChangedDate", "lastAccessedDate", "createdDate",
                    "versionIdsToStages", "tags" }

\* the metadata of a secret holding "top secret", printed
C7_Witness ==
  /\ cmd = "get" /\ pc = "exited" /\ exitCode = Some(0)
  /\ IsSet(response) /\ Val(response).SecretString = "top secret"
  /\ Len(out) = 1

\* C8: an administrative command given an --output other than json or table
\* exits with code 1 and the invalid-output-format error, having sent no
\* request.
C8_OutputFailsFast ==
  (cmd \in AdminCmds /\ pc = "exited" /\ opts.output \notin {"json", "table"})
    => /\ exitCode = Some(1)
       /\ err = <<asOutputFormat(opts.output).err>>
       /\ requests = <<>>

\* C9: `aws secret delete` sends DeleteSecret only if --recovery-days, when
\* given, parses to an integer in 7..30 and is not given together with
\* --force-delete-without-recovery; otherwise it exits with code 1 without
\* sending DeleteSecret.
C9_RecoveryWindow ==
  (cmd = "delete")
    => LET given == IsSet(opts.recoveryDaysArg)
           valid == DaysInRange(Val(opts.recoveryDaysArg))
           bad   == given /\ (~valid \/ opts.forceDeleteWithoutRecovery)
       IN  /\ HasRequest("DeleteSecret") => ~bad
           /\ bad => pc = "exited" /\ exitCode = Some(1) /\ ~HasRequest("DeleteSecret")

\* a deletion sent with the longest recovery window
C9_Witness ==
  /\ cmd = "delete" /\ HasRequest("DeleteSecret")
  /\ opts.recoveryDaysArg = Some(<<"3", "0">>)
  /\ opts.recoveryDays = Some(30)

RECURSIVE SecretsOf(_)
SecretsOf(answers) ==
  IF answers = <<>> THEN <<>>
  ELSE (IF IsSet(Head(answers).SecretList) THEN Val(Head(answers).SecretList) ELSE <<>>)
       \o SecretsOf(Tail(answers))

\* the vault's tags of `secret` contain the pair key=value
HasPair(secret, key, value) ==
  /\ IsSet(secret.Tags)
  /\ \E i \in 1..Len(Val(secret.Tags)) :
       /\ Val(secret.Tags)[i].Key = Some(key)
       /\ Val(secret.Tags)[i].Value = Some(value)

\* `secret` is one that `aws secret list --prefix p -t k=v ...` asks for
Requested(secret) ==
  /\ Truthy(opts.prefix)
       => IsSet(secret.Name) /\ StartsWith(Val(secret.Name), Val(opts.prefix))
  /\ IsSet(opts.tag)
       => \A i \in 1..Len(Val(opts.tag)) :
            LET pair == Val(parseTag(Val(opts.tag)[i]).val)
            IN  HasPair(secret, pair.Key, pair.Value)

NameOf(secret) == IF IsSet(secret.Name) THEN Val(secret.Name) ELSE <<>>

\* C11: listSecrets returns exactly the secrets, over all pages and in vault
\* order, whose name starts with the requested prefix and whose tags contain
\* every requested key=value pair with an equal value.
C11_ListExact ==
  (cmd = "list" /\ IsSet(result))
    => LET wanted == SelectSeq(SecretsOf(pages), Requested)
       IN  /\ Len(Val(result)) = Len(wanted)
           /\ \A i \in 1..Len(wanted) :
                /\ Val(result)[i].name = NameOf(wanted[i])
                /\ Val(result)[i].arn = wanted[i].ARN

\* the ListSecrets requests of the current call, in the order sent
ListRequests == SelectSeq(requests, LAMBDA q : q.api = "ListSecrets")

\* the call listSecrets has returned or thrown
ListDone == pc = "exited"

\* C12: listSecrets follows pagination to exhaustion.  A page is requested
\* only when every earlier request has been answered; the first request
\* carries no token and each later one the NextToken of the answer before it;
\* the call returns when an answer carries no token, having sent one request
\* per page and examined every secret of every page (without filters, all of
\* them are returned); and a call waiting for a page does finish, the
\* vault's chain of pages being finite.
C12_PagesInvariant ==
  (cmd = "list")
    => /\ Len(ListRequests) =
            Len(pages) + (IF pc = "sm" \/ IsSet(failure) THEN 1 ELSE 0)
       /\ ListRequests # <<>> => ListRequests[1].arg = None
       /\ \A i \in 2..Len(ListRequests) :
            /\ Truthy(pages[i - 1].NextToken)
            /\ ListRequests[i].arg = pages[i - 1].NextToken
       /\ IsSet(result)
            => /\ pages # <<>>
               /\ Len(ListRequests) = Len(pages)
               /\ ~Truthy(pages[Len(pages)].NextToken)
               /\ (~Truthy(opts.prefix) /\ ~IsSet(opts.tag))
                    => /\ Len(Val(result)) = Len(SecretsOf(pages))
                       /\ \A i \in 1..Len(Val(result)) :
                            Val(result)[i].name = NameOf(SecretsOf(pages)[i])

C12_Pagination ==
  /\ []C12_PagesInvariant
  /\ (cmd = "list" /\ pc = "sm") ~> ListDone

\* the longest chain of pages followed to its end
C12_Witness ==
  /\ cmd = "list" /\ IsSet(result)
  /\ Len(pages) = MaxPages /\ Len(ListRequests) = MaxPages
  /\ Len(Val(result)) >= MaxPages

\* The vault answers every request sent to it, with a page or with an error.
FairSpec == Spec /\ WF_vars(ListPage \/ AdminSmFail)

\* C13: when the vault request of an administrative function fails, the
\* function returns no result and rejects with a translated error, which is
\* the one message of the command: 'already exists' for
\* AlreadyExistsException, 'was not found' for ResourceNotFoundException, and
\* the error's own message text for any other error that carries one.
C13_TranslatedError ==
  (cmd \in AdminCmds /\ IsSet(failure))
    => /\ pc = "exited"
       /\ result = None
       /\ exitCode = Some(1)
       /\ Len(err) = 1
       /\ LET e == Val(failure)
          IN  CASE e.name = "AlreadyExistsException" ->
                     err[1].text = "Secret already exists."
                [] e.name = "ResourceNotFoundException" ->
                     err[1].text = "Secret was not found."
                [] OTHER ->
                     IsSet(e.message) => err[1] = Msg(Val(e.message))

\* an access-denied error passed through with its own message
C13_Witness ==
  /\ cmd = "update" /\ pc = "exited" /\ result = None
  /\ failure = Some(AwsError("AccessDeniedException", Some("denied")))
  /\ err = <<Msg("denied")>>

\* the sources a call of resolveSecretValue was given
SourcesOf(c) ==
  { s \in {"value", "stdin", "file"} :
      \/ s = "value" /\ Truthy(c.value)
      \/ s = "stdin" /\ c.valueStdin
      \/ s = "file" /\ Truthy(c.valueFile) }

ValueCalled == rpc # "start"
ValueSettled == rpc = "settled"
PromiseRejected(e) == promise.state = "rejected" /\ promise.error = Some(e)
PromiseResolved(v) == promise.state = "resolved" /\ promise.value = v
StdinUntouched ==
  stream.attached = 0 /\ stream.listeners = {} /\ stream.emitted = <<>> /\ chunks = <<>>

\* C14: a call of resolveSecretValue given two or more sources rejects with
\* 'Use only one secret value source: --value, --value-stdin, or --file.',
\* having attached nothing to standard input and read neither it nor the file.
C14_OneSourceOnly ==
  (ValueCalled /\ Cardinality(SourcesOf(call)) >= 2)
    => /\ ValueSettled
       /\ PromiseRejected(MultipleSources)
       /\ promise.calls = 1
       /\ StdinUntouched
       /\ disk.reads = 0

\* --value-stdin together with --file, standard input piped and the file there
C14_Witness ==
  /\ ValueSettled /\ SourcesOf(call) = {"stdin", "file"}
  /\ ~stream.isTTY /\ disk.exists
  /\ PromiseRejected(MultipleSources)

\* `text` without one trailing line terminator, "\n" or "\r\n"
WithoutTerminator(text) ==
  LET n == Len(text)
  IN  IF n >= 2 /\ SubSeq(text, n - 1, n) = <<"\r", "\n">> THEN SubSeq(text, 1, n - 2)
      ELSE IF n >= 1 /\ text[n] = "\n" THEN SubSeq(text, 1, n - 1)
      ELSE text

\* the events up to, and without, the first 'end' or 'error'
FirstTerminal(events) ==
  IF \E i \in 1..Len(events) : events[i].type # "data"
  THEN CHOOSE i \in 1..Len(events) :
         /\ events[i].type # "data"
         /\ \A j \in 1..(i - 1) : events[j].type = "data"
  ELSE 0

\* the chunks of the 'data' events among the first n events, in order
RECURSIVE DataOf(_, _)
DataOf(events, n) ==
  IF n = 0 THEN <<>>
  ELSE DataOf(events, n - 1)
       \o (IF events[n].type = "data" THEN <<events[n].chunk>> ELSE <<>>)

\* C15 as stated: a settled call given exactly one source has resolved, one
\* given two or more has rejected with the 'use only one' message, and one
\* given none has resolved to `value`.
C15_OneSourceResolves ==
  ValueSettled
    => LET n == Cardinality(SourcesOf(call))
       IN  /\ n = 1 => promise.state = "resolved"
           /\ n >= 2 => PromiseRejected(MultipleSources)
           /\ n = 0 => PromiseResolved(call.value)

\* C15 as the code has it: a call given two or more sources rejects with the
\* 'use only one' message; one given none resolves to `value`; one given
\* only --value resolves to it; one given only --value-stdin rejects with
\* 'No stdin detected' on a TTY, else with the stream's error if that comes
\* before the end, else resolves to the piped text less one line terminator;
\* one given only --file resolves to the file's text less one line
\* terminator, or rejects with the error of reading it.
C15_Outcomes ==
  ValueSettled
    => LET given == SourcesOf(call)
           k == FirstTerminal(stream.emitted)
       IN  /\ promise.state \in {"resolved", "rejected"}
           /\ Cardinality(given) >= 2 => PromiseRejected(MultipleSources)
           /\ given = {} => PromiseResolved(call.value)
           /\ given = {"value"} => PromiseResolved(call.value)
           /\ given = {"stdin"}
                => IF stream.isTTY THEN PromiseRejected(NoStdin)
                   ELSE /\ k > 0
                        /\ IF stream.emitted[k].type = "end"
                           THEN PromiseResolved(Some(WithoutTerminator(
                                  BufferConcat(DataOf(stream.emitted, k)))))
                           ELSE PromiseRejected(Val(stream.emitted[k].error))
           /\ given = {"file"}
                => IF disk.exists
                   THEN PromiseResolved(Some(WithoutTerminator(disk.content)))
                   ELSE PromiseRejected(Msg("ENOENT"))

\* the file alone, its text ending in "\r\n"
C15_Witness ==
  /\ ValueSettled /\ SourcesOf(call) = {"file"}
  /\ disk.content = <<"s", "\r", "\n">> /\ disk.reads = 1
  /\ PromiseResolved(Some(<<"s">>))

\* C16 as stated: asked for standard input on a TTY, the call rejects with
\* 'No stdin detected' and has attached no listener to standard input.
C16_NoStdinAlways ==
  (ValueCalled /\ call.valueStdin /\ stream.isTTY)
    => PromiseRejected(NoStdin) /\ StdinUntouched

\* C16 as the code has it: asked for standard input on a TTY, the call
\* rejects at once, having attached no listener to standard input and read
\* nothing from it; the error is 'No stdin detected' when --value-stdin is the
\* only source given, and the 'use only one' error when --value or --file is
\* given too.
C16_NoStdinOnTTY ==
  (ValueCalled /\ call.valueStdin /\ stream.isTTY)
    => /\ ValueSettled
       /\ promise.calls = 1
       /\ StdinUntouched
       /\ PromiseRejected(IF SourcesOf(call) = {"stdin"} THEN NoStdin
                          ELSE MultipleSources)

C16_Witness ==
  /\ ValueSettled /\ SourcesOf(call) = {"stdin"} /\ stream.isTTY
  /\ PromiseRejected(NoStdin) /\ StdinUntouched

\* C17: readStdin settles its promise once, at the first 'end' or 'error' of
\* the stream.  Until then it is pending, with its three listeners attached
\* and every chunk collected; from then on it has no listener, resolve or
\* reject has been called once, and the promise is resolved with the chunks
\* received before the 'end', in order, less one trailing "\n" or "\r\n", or
\* rejected with the error of the 'error': later events change nothing.
C17_SettledOnce ==
  (stream.attached > 0)
    => LET k == FirstTerminal(stream.emitted)
       IN  /\ stream.attached = 3
           /\ IF k = 0
              THEN /\ rpc = "reading"
                   /\ promise = Pending
                   /\ stream.listeners = {"data", "end", "error"}
                   /\ chunks = DataOf(stream.emitted, Len(stream.emitted))
              ELSE /\ rpc = "settled"
                   /\ promise.calls = 1
                   /\ stream.listeners = {}
                   /\ chunks = DataOf(stream.emitted, k)
                   /\ IF stream.emitted[k].type = "end"
                      THEN PromiseResolved(Some(WithoutTerminator(
                             BufferConcat(DataOf(stream.emitted, k)))))
                      ELSE PromiseRejected(Val(stream.emitted[k].error))

\* two chunks, the end, then an error that comes too late
C17_Witness ==
  /\ Len(stream.emitted) = 4
  /\ stream.emitted[1].chunk = <<"a">>
  /\ stream.emitted[2].chunk = <<"a", "\r", "\n">>
  /\ stream.emitted[3].type = "end"
  /\ stream.emitted[4].type = "error"
  /\ PromiseResolved(Some(<<"a", "a">>))

\* parseEnvSecrets has returned a ParseResult
EnvReturned == IsSet(envResult) /\ ~Val(envResult).threw
EnvThrew == IsSet(envResult) /\ Val(envResult).threw
SourceLines == split(content)

\* What line number n of the input says: nothing (blank or comment), a key
\* with its value, or nothing well-formed.
LineBody(n) ==
  LET t == Trim(SourceLines[n])
  IN  IF StartsWith(t, ExportPrefix)
      THEN TrimStart(SubSeq(t, Len(ExportPrefix) + 1, Len(t)))
      ELSE t
IsBlankOrComment(n) ==
  LET t == Trim(SourceLines[n]) IN t = <<>> \/ t[1] = "#"
IsMalformed(n) ==
  /\ ~IsBlankOrComment(n)
  /\ \/ \A i \in 1..Len(LineBody(n)) : LineBody(n)[i] # "="
     \/ Trim(SubSeq(LineBody(n), 1, IndexOf(LineBody(n), "=") - 1)) = <<>>
HasKey(n) == ~IsBlankOrComment(n) /\ ~IsMalformed(n)
KeyOfLine(n) == Trim(SubSeq(LineBody(n), 1, IndexOf(LineBody(n), "=") - 1))
ValueOfLine(n) ==
  Trim(SubSeq(LineBody(n), IndexOf(LineBody(n), "=") + 1, Len(LineBody(n))))

\* C18: in what parseEnvSecrets returns no two entries have the same key,
\* and every entry's `line` is the 1-based number of a line of the input
\* that holds the entry's key and value.
C18_UniqueKeysTrueLines ==
  EnvReturned
    => LET es == Val(envResult).val.entries
       IN  /\ \A i, j \in 1..Len(es) : es[i].key = es[j].key => i = j
           /\ \A i \in 1..Len(es) :
                /\ es[i].line \in 1..Len(SourceLines)
                /\ HasKey(es[i].line)
                /\ es[i].key = KeyOfLine(es[i].line)
                /\ es[i].value = ValueOfLine(es[i].line)

\* two entries, from the second and the third line
C18_Witness ==
  /\ EnvReturned
  /\ Len(SourceLines) = 3
  /\ Val(envResult).val.entries =
       << [key |-> <<"B">>, value |-> <<"x", "=", "y">>, line |-> 2],
          [key |-> <<"A">>, value |-> <<"3">>, line |-> 3] >>

\* the first line that holds the key of line n
FirstOf(n) ==
  CHOOSE m \in 1..n :
    /\ HasKey(m) /\ KeyOfLine(m) = KeyOfLine(n)
    /\ \A l \in 1..(m - 1) : ~(HasKey(l) /\ KeyOfLine(l) = KeyOfLine(n))

\* C19: of the lines that hold one key, the first gives the entry (with its
\* value and line number) and each later one a record in `skipped` with its
\* own line number and the reason 'duplicate key'; every line is accounted
\* for, and `entries` and `skipped` are in the order of the lines.
C19_FirstWins ==
  EnvReturned
    => LET es == Val(envResult).val.entries
           ss == Val(envResult).val.skipped
       IN  /\ \A i, j \in 1..Len(es) : i < j => es[i].line < es[j].line
           /\ \A i, j \in 1..Len(ss) : i < j => ss[i].line < ss[j].line
           /\ \A n \in 1..Len(SourceLines) :
                HasKey(n)
                  => IF FirstOf(n) = n
                     THEN /\ \E i \in 1..Len(es) :
                               es[i] = [key |-> KeyOfLine(n), value |-> ValueOfLine(n),
                                        line |-> n]
                          /\ \A i \in 1..Len(ss) : ss[i].line # n
                     ELSE /\ \E i \in 1..Len(ss) :
                               ss[i] = [key |-> KeyOfLine(n), line |-> n,
                                        reason |-> "duplicate key"]
                          /\ \A i \in 1..Len(es) : es[i].line # n
           /\ \A i \in 1..Len(es) : HasKey(es[i].line)
           /\ \A i \in 1..Len(ss) : HasKey(ss[i].line)

\* A=1, then export A=3 skipped twice
C19_Witness ==
  /\ EnvReturned
  /\ Val(envResult).val.entries = <<[key |-> <<"A">>, value |-> <<"1">>, line |-> 1]>>
  /\ Val(envResult).val.skipped =
       << [key |-> <<"A">>, line |-> 2, reason |-> "duplicate key"],
          [key |-> <<"A">>, line |-> 3, reason |-> "duplicate key"] >>
  /\ ValueOfLine(2) = <<"3">> /\ ValueOfLine(3) = <<"3">>

\* C20: when a line of the input that is neither blank nor a comment has no
\* "=" after the optional `export ` prefix, or has an empty key,
\* parseEnvSecrets throws an error that names the number and the raw text of
\* the first such line and returns no ParseResult; it reads no line after
\* that one, and throws for no other input.
C20_MalformedThrows ==
  LET bad == {n \in 1..Len(SourceLines) : IsMalformed(n)}
  IN  /\ IsSet(envResult)
        => IF bad = {}
           THEN EnvReturned
           ELSE LET n == CHOOSE m \in bad : \A l \in bad : m <= l
                IN  /\ EnvThrew
                    /\ Val(envResult).val = None
                    /\ Val(envResult).err.line = n
                    /\ Val(envResult).err.subject = Some(SourceLines[n])
                    /\ index = n - 1
      /\ \A n \in bad : index < n

\* an entry parsed from line 1, then line 2 with an empty key
C20_Witness ==
  /\ EnvThrew
  /\ Len(SourceLines) = 3
  /\ entries = <<[key |-> <<"A">>, value |-> <<"1">>, line |-> 1]>>
  /\ Val(envResult).err.line = 2
  /\ Val(envResult).err.subject = Some(<<" ", "=", "1">>)

\* line n without surrounding whitespace and without a leading `export `
\* and the whitespace after it
Stripped(n) ==
  LET t == Trim(SourceLines[n])
  IN  IF Len(t) >= 7 /\ SubSeq(t, 1, 7) = ExportPrefix
      THEN TrimStart(SubSeq(t, 8, Len(t)))
      ELSE t
\* p is the position of the first "=" of text b
FirstEquals(b, p) ==
  /\ p \in 1..Len(b) /\ b[p] = "="
  /\ \A q \in 1..(p - 1) : b[q] # "="
\* the records of lines already read that came from line n
EntriesFrom(n) == {entries[i] : i \in {j \in 1..Len(entries) : entries[j].line = n}}
SkippedFrom(n) == {skipped[i] : i \in {j \in 1..Len(skipped) : skipped[j].line = n}}

\* C21: of the lines read so far, an empty line (after trimming) or one that
\* starts with "#" gives nothing; any other gives one record, an entry or a
\* duplicate, whose key is the trimmed text before the first "=" of the line
\* as trimmed and rid of a leading `export ` with the whitespace after it,
\* and, for an entry, whose value is the trimmed text after that "=", other
\* "=" included.
C21_SplitAtFirstEquals ==
  \A n \in 1..index :
    LET t == Trim(SourceLines[n])
        b == Stripped(n)
    IN  IF t = <<>> \/ t[1] = "#"
        THEN EntriesFrom(n) = {} /\ SkippedFrom(n) = {}
        ELSE \E p \in 1..Len(b) :
               /\ FirstEquals(b, p)
               /\ Cardinality(EntriesFrom(n)) + Cardinality(SkippedFrom(n)) = 1
               /\ \A e \in EntriesFrom(n) :
                    /\ e.key = Trim(SubSeq(b, 1, p - 1))
                    /\ e.value = Trim(SubSeq(b, p + 1, Len(b)))
               /\ \A k \in SkippedFrom(n) : k.key = Trim(SubSeq(b, 1, p - 1))

\* a comment gives nothing, and ` export  B = x=y ` gives B with x=y
C21_Witness ==
  /\ index = 2
  /\ SourceLines[1] = <<"#", "A", "=", "1">>
  /\ SourceLines[2] = <<" ">> \o ExportPrefix \o <<" ", "B", " ", "=", " ", "x", "=", "y", " ">>
  /\ entries = <<[key |-> <<"B">>, value |-> <<"x", "=", "y">>, line |-> 2]>>

\* the key/value pairs of the entries parseEnvSecrets returned, in order
PairsOf(es) == [i \in 1..Len(es) |-> Entry(es[i].key, es[i].value)]

\* C22: when the text is what objectToExport writes for a map of secrets
\* whose values hold no newline, parseEnvSecrets returns entries whose pairs
\* are the pairs of the map, in order, and skips nothing.
C22_RoundTrip ==
  \A obj \in SecretMaps :
    (content = Val(objectToExport(obj).val) /\ IsSet(envResult))
      => /\ EnvReturned
         /\ PairsOf(Val(envResult).val.entries) = obj.entries
         /\ Val(envResult).val.skipped = <<>>

\* the environments built by the current invocation that can be observed: the
\* one given to the child, or the one printed in test mode
BuiltEnvs ==
  {spawned[i].env : i \in 1..Len(spawned)}
    \cup {out[i].env : i \in {j \in 1..Len(out) : out[j].text = "JSON.stringify(env)"}}
\* the value the secrets hold for key k
SecretValueOf(obj, k) ==
  LET i == CHOOSE j \in 1..Len(obj.entries) :
             /\ obj.entries[j].key = k
             /\ \A l \in (j + 1)..Len(obj.entries) : obj.entries[l].key # k
  IN  obj.entries[i].value
SecretKeysOf(obj) == {obj.entries[i].key : i \in 1..Len(obj.entries)}

\* C23: in process mode the environment built for the child has the keys of
\* the parent's environment and of the secrets; a key of the secrets has the
\* secret's value, any other key the parent's value; and the parent's own
\* environment stays what it was.
C23_MergedEnv ==
  /\ processEnv = ProcessEnv
  /\ (cmd = "inject" /\ pc = "exited" /\ IsSet(secrets))
       => \A env \in BuiltEnvs :
            /\ DOMAIN env = DOMAIN ProcessEnv \cup SecretKeysOf(Val(secrets))
            /\ \A k \in DOMAIN env :
                 env[k] = IF k \in SecretKeysOf(Val(secrets))
                          THEN SecretValueOf(Val(secrets), k)
                          ELSE ProcessEnv[k]

\* the child launched with K from the secret and HOME from the parent
C23_Witness ==
  /\ cmd = "inject" /\ pc = "exited"
  /\ secrets = Some(Parsed("object", <<Entry(<<"K">>, <<"v">>)>>))
  /\ Len(spawned) = 1
  /\ spawned[1].env[<<"K">>] = <<"v">>
  /\ spawned[1].env[<<"HOME">>] = <<"h">>
  /\ ProcessEnv[<<"K">>] = <<"o">>
  /\ processEnv = ProcessEnv

\* C24: an invocation of `aws -s <secret>` writes the file or launches the
\* program, never both.  A step that writes the file belongs to an invocation
\* given an output file and launches nothing, whatever program is given; a
\* step that launches a child belongs to an invocation given no output file
\* and a program, launches that one child and writes no file; and at no time
\* has an invocation launched more than one child, or any child when it was
\* given an output file or no program.
C24_FileOrProcess ==
  [][ /\ fs' # fs
           => /\ cmd' = "inject" /\ Truthy(opts'.outFile)
              /\ spawned' = <<>>
      /\ spawned' # spawned /\ spawned' # <<>>
           => /\ cmd' = "inject" /\ ~Truthy(opts'.outFile)
              /\ opts'.program # <<>>
              /\ Len(spawned') = 1 /\ spawned'[1].program = opts'.program
              /\ fs' = fs
      /\ Len(spawned') <= 1
      /\ (Truthy(opts'.outFile) \/ opts'.program = <<>>) => spawned' = <<>> ]_vars

\* the file written and the program that was given not launched
C24_Witness ==
  /\ cmd = "inject" /\ pc = "exited" /\ exitCode = Some(0)
  /\ Truthy(opts.outFile) /\ opts.program # <<>>
  /\ fs.exists /\ fs.mode = "0400"
  /\ out = <<MsgFor("Secrets written to", Val(opts.outFile))>>
  /\ spawned = <<>>

\* what resolveAwsScope takes for field f from the global options
GlobalOf(f) ==
  IF IsSet(args.command) /\ Val(args.command)[f].type = "string"
  THEN Some(Val(args.command)[f].text)
  ELSE None

\* C25: resolveAwsScope resolves each of profile and region from that field
\* alone: the local value when one is given (a non-empty string), else the
\* global value when the global options have a string there, else undefined;
\* neither field depends on the other.
C25_ScopePerField ==
  (fn = "resolveAwsScope" /\ IsSet(ret))
    => \A f \in {"profile", "region"} :
         Val(ret)[f] = IF IsSet(args.options[f]) /\ Val(args.options[f]) # <<>>
                       THEN args.options[f]
                       ELSE GlobalOf(f)

\* local {profile: a} over global {profile: b, region: c}
C25_Witness ==
  /\ fn = "resolveAwsScope" /\ IsSet(ret)
  /\ args.options = [profile |-> Some(<<"a">>), region |-> None]
  /\ args.command = Some([profile |-> StringValue(<<"b">>), region |-> StringValue(<<"c">>)])
  /\ Val(ret) = [profile |-> Some(<<"a">>), region |-> Some(<<"c">>)]

\* the text of row r in column c, a missing cell being empty
CellText(r, c) ==
  LET v == args.rows[r][args.headers[c].key]
  IN  IF IsSet(v) THEN Val(v) ELSE <<>>
\* the width of column c: the longest of its label and its cells
WidthOf(c) ==
  CHOOSE w \in 0..8 :
    /\ Len(args.headers[c].label) <= w
    /\ \A r \in 1..Len(args.rows) : Len(CellText(r, c)) <= w
    /\ \/ Len(args.headers[c].label) = w
       \/ \E r \in 1..Len(args.rows) : Len(CellText(r, c)) = w
\* where column c starts in a line (0-based), columns being two apart
RECURSIVE OffsetOf(_)
OffsetOf(c) == IF c = 1 THEN 0 ELSE OffsetOf(c - 1) + WidthOf(c - 1) + 2
\* line has `text`, then only `fill`, in the place of column c
ShowsAt(line, c, text, fill) ==
  /\ Len(line) >= OffsetOf(c) + WidthOf(c)
  /\ \A i \in 1..WidthOf(c) :
       line[OffsetOf(c) + i] = IF i <= Len(text) THEN text[i] ELSE fill
  /\ c > 1 => line[OffsetOf(c) - 1] = " " /\ line[OffsetOf(c)] = " "

\* C26: renderTable returns 'No results.' for no rows, whatever the headers.
\* Otherwise it returns the header line, the divider and one line per row in
\* the order of the rows, separated by "\n"; every line is as long as the
\* columns with two spaces between them; and in the place of each column,
\* whose width is the longest of its label and its cells (a missing cell
\* being empty), the header line has the label and the row's line the cell,
\* each followed by spaces up to the width, and the divider has dashes.
C26_Table ==
  (fn = "renderTable" /\ IsSet(ret))
    => IF Len(args.rows) = 0
       THEN Val(ret) = NoResults
       ELSE LET out_lines == split(Val(ret))
                n == Len(args.headers)
            IN  /\ Len(out_lines) = Len(args.rows) + 2
                /\ \A l \in 1..Len(out_lines) :
                     Len(out_lines[l]) = IF n = 0 THEN 0 ELSE OffsetOf(n) + WidthOf(n)
                /\ \A c \in 1..n :
                     /\ ShowsAt(out_lines[1], c, args.headers[c].label, " ")
                     /\ ShowsAt(out_lines[2], c, <<>>, "-")
                     /\ \A r \in 1..Len(args.rows) :
                          ShowsAt(out_lines[r + 2], c, CellText(r, c), " ")

\* two columns and two rows: a label wider than its cells, a cell wider
\* than its label, and a missing cell
C26_Witness ==
  /\ fn = "renderTable" /\ IsSet(ret)
  /\ args.headers = << [key |-> "n", label |-> <<"N">>],
                       [key |-> "v", label |-> <<"V", "A", "L">>] >>
  /\ args.rows = << [k \in {"n", "v"} |-> IF k = "n" THEN Some(<<"w", "x", "y", "z">>)
                                          ELSE Some(<<"x">>)],
                    [k \in {"n", "v"} |-> IF k = "n" THEN Some(<<"x">>) ELSE None] >>
  /\ Val(ret) = <<"N", " ", " ", " ", " ", " ", "V", "A", "L", "\n",
                  "-", "-", "-", "-", " ", " ", "-", "-", "-", "\n",
                  "w", "x", "y", "z", " ", " ", "x", " ", " ", "\n",
                  "x", " ", " ", " ", " ", " ", " ", " ", " ">>

\* environment variable v is set (to something other than the empty text)
EnvSet(v) == IsSet(args.env[v]) /\ Val(args.env[v]) # <<>>

\* C27: buildAwsClientConfig takes the credentials of the given profile when
\* one is given (a non-empty name), whatever the environment holds; else, when
\* AWS_ACCESS_KEY_ID and AWS_SECRET_ACCESS_KEY are both set, it leaves the
\* credentials undefined; else it takes those of the profile `default`.  The
\* endpoint is AWS_ENDPOINT_URL when set, else AWS_SECRETS_MANAGER_ENDPOINT
\* when set, else the config has no endpoint; the region is the one given.
C27_CredentialPrecedence ==
  (fn = "buildAwsClientConfig" /\ IsSet(ret))
    => LET given == IsSet(args.options.profile) /\ Val(args.options.profile) # <<>>
       IN  /\ Val(ret).credentials =
                IF given
                THEN Some([provider |-> "fromIni", profile |-> Val(args.options.profile)])
                ELSE IF EnvSet("AWS_ACCESS_KEY_ID") /\ EnvSet("AWS_SECRET_ACCESS_KEY")
                THEN None
                ELSE Some([provider |-> "fromIni", profile |-> <<"default">>])
           /\ IF EnvSet("AWS_ENDPOINT_URL")
              THEN /\ "endpoint" \in Val(ret).keys
                   /\ Val(ret).endpoint = args.env.AWS_ENDPOINT_URL
              ELSE IF EnvSet("AWS_SECRETS_MANAGER_ENDPOINT")
              THEN /\ "endpoint" \in Val(ret).keys
                   /\ Val(ret).endpoint = args.env.AWS_SECRETS_MANAGER_ENDPOINT
              ELSE /\ "endpoint" \notin Val(ret).keys
                   /\ Val(ret).endpoint = None
           /\ Val(ret).region = args.options.region

\* a profile given while both keys are in the environment
C27_Witness ==
  /\ fn = "buildAwsClientConfig" /\ IsSet(ret)
  /\ args.options.profile = Some(<<"p">>)
  /\ args.env.AWS_ACCESS_KEY_ID = Some(<<"i">>)
  /\ args.env.AWS_SECRET_ACCESS_KEY = Some(<<"s">>)
  /\ args.env.AWS_ENDPOINT_URL = None
  /\ args.env.AWS_SECRETS_MANAGER_ENDPOINT = Some(<<"m">>)
  /\ Val(ret).credentials = Some([provider |-> "fromIni", profile |-> <<"p">>])
  /\ Val(ret).endpoint = Some(<<"m">>)

\* the message listSecrets throws for a rejected request: no secret is named
ListErrorText(e) ==
  CASE e.name = "AlreadyExistsException" -> Msg("Secret already exists.")
    [] e.name = "ResourceNotFoundException" -> Msg("Secret was not found.")
    [] e.name = "InvalidRequestException" /\ ~IsSet(e.message) ->
         Msg("Invalid request to AWS Secrets Manager.")
    [] e.name = "AccessDeniedException" /\ ~IsSet(e.message) ->
         Msg("Access denied while calling AWS Secrets Manager. Verify IAM permissions.")
    [] OTHER -> IF IsSet(e.message) THEN Msg(Val(e.message)) ELSE Msg("String(error)")

\* C28: when a ListSecrets request fails, on whatever page, `aws secret list`
\* ends there: listSecrets has returned no list, nothing of what the earlier
\* pages gave is printed, the one line on standard error is the translated
\* error and the exit code is 1; the failed request is the last one sent,
\* one more than the pages answered.
C28_NoPartialList ==
  (cmd = "list" /\ IsSet(failure))
    => /\ pc = "exited"
       /\ result = None
       /\ out = <<>>
       /\ err = <<ListErrorText(Val(failure))>>
       /\ exitCode = Some(1)
       /\ Len(ListRequests) = Len(pages) + 1
       /\ requests[Len(requests)].api = "ListSecrets"

\* the second page fails after the first gave a secret
C28_Witness ==
  /\ cmd = "list" /\ pc = "exited" /\ IsSet(failure)
  /\ Len(pages) = 1 /\ Len(listed) >= 1
  /\ Len(ListRequests) = 2
  /\ result = None /\ out = <<>>
  /\ err = <<Msg("slow down")>>

\* the vault fetch of the current invocation failed: no identity, a rejected
\* GetSecretValue, or a SecretString with nothing to parse
FetchFailed ==
  \/ identity.state = "failed"
  \/ IsSet(failure)
  \/ IsSet(response) /\ UnusableSecretString(Val(response).SecretString)

\* C29: the step that ends an `aws -s <secret> -o <file>` invocation creates
\* the file whenever the file did not exist, empty and with exit code 0 when
\* the vault fetch failed; and started on a file that exists, it ends with
\* exit code 1 and the 'already exists' error and leaves the file as it was,
\* whatever the vault answered.
C29_FileAlwaysCreated ==
  [][ ( /\ cmd' = "inject" /\ pc # "exited" /\ pc' = "exited"
        /\ Truthy(opts'.secret) /\ Truthy(opts'.outFile) )
      => IF fs.exists
         THEN /\ fs' = fs
              /\ exitCode' = Some(1)
              /\ err'[Len(err')] = FileExistsMsg(Val(opts'.outFile))
         ELSE /\ fs'.exists
              /\ FetchFailed' => fs'.content = <<>> /\ exitCode' = Some(0) ]_vars

\* C30: whatever SecretString the vault returns, secretsmanager resolves to
\* a key-to-value object, so that objectToExport and the merge over the
\* environment are defined for it.
C30_AlwaysAnObject ==
  (cmd = "inject" /\ pc = "exited" /\ called = "secretsmanager")
    => /\ IsSet(secrets)
       /\ Val(secrets).kind = "object"
       /\ ~objectToExport(Val(secrets)).threw

====
